---- MODULE Spec2Model ----
(***************************************************************************)
(* Real-time synchronisation layer of the Hyperliquid dashboard.           *)
(*                                                                         *)
(* Two services are modelled, each from its source:                        *)
(*   - the account service: the module-level WebSocket client of           *)
(*     src/unnamed/part_011 (initializeWebSocket, closeWebSocketConnection,*)
(*     subscribeToChannel, subscribeToUserState);                          *)
(*   - the socket service: class HyperliquidSocketService of               *)
(*     src/src/services/hyperliquidService.ts.                             *)
(* The two share no state.  A behaviour exercises one of them (variable    *)
(* service, fixed by Init), so a formula over one service's variables      *)
(* holds of the pair exactly when it holds here.  What both sources name   *)
(* alike (reconnectAttempts, pingInterval) and the socket objects          *)
(* (readyState, sent) are therefore declared once.                         *)
(*                                                                         *)
(* JavaScript is single threaded: every action below is one task (an event *)
(* handler, a timer callback or a call from the UI) together with the      *)
(* microtasks it releases (the continuations of the promises it settles).  *)
(***************************************************************************)
EXTENDS Naturals, Integers, Sequences, FiniteSets, TLC

\* ------------------------------------------------------------------ bounds
\* Sockets that can be alive (handlers attached, or a connection timeout
\* still pending) at the same time.
MaxSockets == 3
\* UI consumers of the account service.
NumConsumers == 2
\* Calls of one returned unsubscribe function.
MaxUnsubCalls == 2
\* Calls of closeWebSocketConnection() while consumers run.
MaxDisconnects == 1
\* Direct calls of initializeWebSocket() / closeWebSocketConnection() by the UI
\* when the connection is exercised alone.
MaxDirectCalls == 3
\* Connections dropped by the network or the server while consumers run.
MaxFailures == 1
\* The wire log counts equal frames up to this number.
MaxDup == 2
\* Leaked ping/health-check intervals are counted up to this number.
MaxStray == 1
\* Listeners of one event of the socket service at a time.
MaxListeners == 1
MaxCallbacks == 2
MaxObservers == 2

\* ------------------------------------------------------- program constants
MAX_RECONNECT_ATTEMPTS == 10
RECONNECT_DELAY_MS == 5000
RECONNECT_INTERVAL == 3000

Sockets == 1..MaxSockets
NoSocket == 0
Consumers == 1..NumConsumers
NoConsumer == 0
\* The events whose listeners the socket service counts (HyperliquidEvents).
Events == {"PRICES_UPDATED", "CONNECTION_STATUS_CHANGED"}

Min(a, b) == IF a <= b THEN a ELSE b

\* ------------------------------------------------------------ wire codec
\* A JavaScript string is a sequence of tokens; an address is spelled one
\* character per token so that toLowerCase() acts on it.
LowerChar(ch) ==
  CASE ch = "A" -> "a"
    [] ch = "B" -> "b"
    [] ch = "C" -> "c"
    [] ch = "D" -> "d"
    [] OTHER -> ch

\* String.prototype.toLowerCase
ToLowerCase(str) == [i \in DOMAIN str |-> LowerChar(str[i])]

\* The addresses the UI passes (wallet addresses, checksum-cased or not).
Addresses == { <<"0", "x", "A", "b">>, <<"0", "x", "a", "b">> }

\* JSON.stringify of a params object: members in insertion order.
RECURSIVE StringifyMembers(_)
StringifyMembers(params) ==
  IF params = <<>> THEN <<>>
  ELSE LET m == Head(params)
           one == <<"\"", m[1], "\"", ":", "\"">> \o m[2] \o <<"\"">>
       IN IF Tail(params) = <<>> THEN one
          ELSE one \o <<",">> \o StringifyMembers(Tail(params))

JsonStringify(params) == <<"{">> \o StringifyMembers(params) \o <<"}">>

\* `${channel}:${JSON.stringify(params)}`
SubscriptionKey(channel, params) == <<channel, ":">> \o JsonStringify(params)

\* `webData2:{"user":"${formattedAddress}"}`
WebData2Key(formattedAddress) ==
  <<"webData2", ":", "{", "\"", "user", "\"", ":", "\"">> \o formattedAddress \o <<"\"", "}">>

\* String.prototype.split(sep): every piece between separators.
RECURSIVE SplitAll(_, _, _)
SplitAll(str, sep, piece) ==
  IF str = <<>> THEN <<piece>>
  ELSE IF Head(str) = sep THEN <<piece>> \o SplitAll(Tail(str), sep, <<>>)
  ELSE SplitAll(Tail(str), sep, Append(piece, Head(str)))

\* String.prototype.split(sep, limit): the first `limit` pieces of the full
\* split; what follows them is dropped.
Split(str, sep, limit) ==
  LET all == SplitAll(str, sep, <<>>)
  IN SubSeq(all, 1, Min(limit, Len(all)))

\* JSON.parse of an object of string members; ok = FALSE when it throws.
RECURSIVE ParseMembers(_)
ParseMembers(toks) ==
  \* toks: "k":"v...", "k":"v..." ...   (non-empty)
  IF Len(toks) < 6 \/ toks[1] # "\"" \/ toks[3] # "\"" \/ toks[4] # ":" \/ toks[5] # "\""
  THEN [ok |-> FALSE, params |-> <<>>]
  ELSE LET key == toks[2]
           rest == SubSeq(toks, 6, Len(toks))
           closing == { i \in 1..Len(rest) : rest[i] = "\"" }
       IN IF closing = {} THEN [ok |-> FALSE, params |-> <<>>]
          ELSE LET q == CHOOSE i \in closing : \A j \in closing : i <= j
                   val == SubSeq(rest, 1, q - 1)
                   after == SubSeq(rest, q + 1, Len(rest))
               IN IF after = <<>> THEN [ok |-> TRUE, params |-> << <<key, val>> >>]
                  ELSE IF Head(after) # "," THEN [ok |-> FALSE, params |-> <<>>]
                  ELSE LET more == ParseMembers(Tail(after))
                       IN [ok |-> more.ok,
                           params |-> IF more.ok THEN << <<key, val>> >> \o more.params ELSE <<>>]

JsonParse(toks) ==
  IF Len(toks) < 2 \/ Head(toks) # "{" \/ toks[Len(toks)] # "}"
  THEN [ok |-> FALSE, params |-> <<>>]
  ELSE IF Len(toks) = 2 THEN [ok |-> TRUE, params |-> <<>>]
  ELSE ParseMembers(SubSeq(toks, 2, Len(toks) - 1))

\* An outbound frame: JSON.stringify({method, subscription: {type, ...params}}),
\* or the keep-alive {method: 'ping'}.
Frame(method, type, params) == [method |-> method, type |-> type, params |-> params]
PingFrame == [method |-> "ping", type |-> "", params |-> <<>>]

\* The mid-price tables the server pushes; the text of a table is one token,
\* and <<>> is the table without entries.
Mids == { <<"BTC:1">> }

\* A price map after a callback that was given it wrote to it (map.BTC = '0').
Scribbled == <<"BTC:0">>

\* ------------------------------------------------------- account states
\* undefined, and an optional object: absent, or the object.
Absent == "undefined"
None == <<>>
Some(v) == <<v>>

\* The wallets the user switches between, and no wallet connected.
Wallets == {"0xA", "0xB"}
NoAccount == "null"

\* An asset position (type AssetPosition), by the fields that tell two apart.
Position(coin, szi) == [coin |-> coin, szi |-> szi]

\* The position lists the server reports for wallet a: none, or its one
\* position.  The two wallets hold different coins.
Portfolio(a) ==
  IF a = "0xA" THEN { <<>>, << Position("BTC", "1") >> }
  ELSE { <<>>, << Position("ETH", "2") >> }

\* crossMarginSummary objects (type MarginSummary; leverage is optional).
MarginSummary(accountValue, leverage) == [accountValue |-> accountValue, leverage |-> leverage]
Summaries == { MarginSummary("10", Absent), MarginSummary("20", "3") }
Balances == {"10", "20"}
Margins == {"5", "7"}

\* The value MainView holds before the first update: useState() without argument.
NoState == [assetPositions |-> <<>>, crossMarginSummary |-> None, withdrawable |-> Absent,
            crossMaintenanceMarginUsed |-> Absent, defined |-> FALSE]

\* An object of type AccountState.
AccountState(positions, summary, withdrawable, maintenance) ==
  [assetPositions |-> positions, crossMarginSummary |-> summary, withdrawable |-> withdrawable,
   crossMaintenanceMarginUsed |-> maintenance, defined |-> TRUE]

\* What asFetchedClearinghouseState lets through for wallet a: the REST
\* baseline (crossMaintenanceMarginUsed is optional).
Baselines(a) ==
  { AccountState(ps, Some(sm), w, m) :
      ps \in Portfolio(a), sm \in Summaries, w \in Balances, m \in Margins \cup {Absent} }

\* What asWsClearinghouseState lets through for wallet a: every field optional.
WsClearinghouseStates(a) ==
  [assetPositions : {None} \cup { Some(ps) : ps \in Portfolio(a) },
   crossMarginSummary : {None} \cup { Some(sm) : sm \in Summaries },
   withdrawable : Balances \cup {Absent}]

\* ------------------------------------------------------------------ state
VARIABLES
  service,                        \* which service the behaviour exercises
  \* --- account service (src/unnamed/part_011) ---
  websocket,                      \* the socket the module refers to, or NoSocket
  readyState,                     \* per socket slot: WebSocket.readyState ("NONE": slot unused)
  handlers,                       \* per socket: onopen/onclose/onerror/onmessage still attached
  connectionTimeout,              \* per socket: the 10 s timer of the call that created it is pending
  sent,                           \* per socket: the frames written to it (frame -> count)
  websocketSubscriptions,         \* the registry: subscription key -> callback (its consumer)
  reconnectAttempts,
  reconnectTimer,                 \* the module holds a pending reconnect timer
  strayReconnectTimers,           \* pending reconnect timers the module no longer refers to
  isIntentionalClose,
  pingInterval,
  connectionHealthCheckInterval,
  strayIntervals,                 \* ping/health intervals running but no longer referred to
  websocketStatus,
  \* --- consumers of the account service ---
  pc,                             \* per consumer: where its subscribe call stands
  req,                            \* per consumer: the arguments of its call
  awaiting,                       \* per consumer: the socket whose open resolves its await
  torn,                           \* per consumer: its cleanup has run
  unsubCalls,                     \* per consumer: calls of its returned unsubscribe function
  notified,                       \* callbacks invoked by the latest step
  \* --- both services ---
  directCalls,                    \* direct initializeWebSocket/closeWebSocketConnection calls so far
  failures,                       \* faults of the network or the server so far: connections dropped, too slow or silent
  faultBudget,                    \* the faults the environment injects in this behaviour (0: any number, not counted)
  callBudget,                     \* the direct calls the UI makes in this behaviour
  timerAttempts,                  \* reconnect-timer connection attempts since the last handled open
  exhausted,                      \* a close has been handled with no attempts left ("Maximum reconnection attempts reached")
  pongOverdue,                    \* Date.now() - lastPongReceived > 60000
  closeCause,                     \* per socket: why the client closed it ("timeout", "noPong"), else "none"
  \* --- socket service (class HyperliquidSocketService) ---
  ws,                             \* this.ws: a socket, or NoSocket
  reconnectTimeout,               \* this.reconnectTimeout is pending
  connectionStatus,
  listenerCounts,
  prices,                         \* this.prices (<<>>: no price yet)
  lastPongTime,                   \* this.lastPongTime: "null", or "receipt" once a pong was recognised
  cachedMidPrices,                \* the module-level price cache of hyperliquidService.ts
  emitted,                        \* the events this step emitted on this.emitter, in order
  direct,                         \* the values this step passed to the callback being registered
  listeners,                      \* per event: the callbacks registered on this.emitter
  handed,                         \* the object this step's PRICES_UPDATED listeners were given: "prices"
                                  \* (this.prices itself), "cache" (this.prices and the cache, one object); else "none"
  listenerBudget,                 \* the callbacks per event the application registers in this behaviour
  \* --- the account view (components MainView and AccountSummary) ---
  account,                        \* useWallet().account: an address of Wallets, or NoAccount
  subscription,                   \* what the running subscribeToUserState call of the view is at
  accountState,                   \* MainView's accountState, or NoState
  isLoading,                      \* MainView's isLoading
  maintenanceMargin,              \* AccountSummary's maintenanceMargin ('0' while it is not mounted)
  incoming,                       \* the newAccountState the step's onUpdate was called with, or NoState
  returned,                       \* the object the step's updater returned: "prev", "incoming", "copy" ("none": no update)
  previous,                       \* the prevAccountState the step's updater was called with, or NoState
  knownMargin,                    \* the last crossMaintenanceMarginUsed AccountSummary was given since it mounted
  \* --- inbound traffic ---
  messageCallbacks,               \* the module's messageCallbacks array (closures given to onWebSocketMessage)
  pulsed,                         \* per closure: how often this step's message handler called it
  delay,                          \* the reconnect delay the latest close computed, in 1/32 ms (kept
                                  \* where the delays are exercised alone; 0: none)
  inbound                         \* what the step's message handler was given, when that is no pong and no
                                  \* well-formed frame of a requested feed: "stray", "ack", "malformed",
                                  \* "loose", "junk", "bare", "emptyMids"; "none" otherwise

accountVars == << websocket, readyState, handlers, connectionTimeout, sent,
                  websocketSubscriptions, reconnectAttempts, reconnectTimer,
                  strayReconnectTimers, isIntentionalClose, pingInterval,
                  connectionHealthCheckInterval, strayIntervals, websocketStatus,
                  timerAttempts >>
socketVars == << ws, reconnectTimeout, connectionStatus, listenerCounts, prices, lastPongTime,
                cachedMidPrices, emitted, direct, listeners, handed, listenerBudget >>
viewVars == << account, subscription, accountState, isLoading, maintenanceMargin, incoming,
              returned, previous, knownMargin >>
consumerVars == << pc, req, awaiting, torn, unsubCalls, notified >>
vars == << service, accountVars, consumerVars, directCalls, failures, faultBudget, callBudget, exhausted,
          pongOverdue, closeCause, socketVars, viewVars, inbound, messageCallbacks, pulsed, delay >>

\* The closures the UI passes to onWebSocketMessage: each call passes a new one.
Observers == 1..MaxObservers
NoPulse == [o \in Observers |-> 0]

\* The message handler without its pulse.
PulseNobody(callbacks) == [o \in Observers |-> 0]

\* messageCallbacks.forEach(callback => callback())
Pulse(callbacks) ==
  [o \in Observers |-> Cardinality({ i \in DOMAIN callbacks : callbacks[i] = o })]

\* A step that handles no frame of the account service.
Quiet ==
  /\ inbound' = "none"
  /\ pulsed' = NoPulse
  /\ UNCHANGED messageCallbacks

EmptyBag == [f \in {} |-> 0]

\* One more copy of frame f in the wire log b.
AddFrame(b, f) ==
  IF f \in DOMAIN b THEN [b EXCEPT ![f] = Min(@ + 1, MaxDup)]
  ELSE [g \in DOMAIN b \cup {f} |-> IF g = f THEN 1 ELSE b[g]]

Count(b, f) == IF f \in DOMAIN b THEN b[f] ELSE 0

\* websocket.send(frame) when the module's socket is `sock`: written to the
\* wire only on an OPEN socket.  (CONNECTING: send throws; CLOSING or CLOSED:
\* the data is discarded.)
SendOn(log, rs, sock, frame) ==
  IF sock # NoSocket /\ rs[sock] = "OPEN"
  THEN [log EXCEPT ![sock] = AddFrame(@, frame)]
  ELSE log

\* websocket!.send(...) throws: a TypeError on null, InvalidStateError while CONNECTING.
SendThrows(rs, sock) == sock = NoSocket \/ rs[sock] = "CONNECTING"

\* What the UI may ask for.
UserRequest(address) == [kind |-> "user", address |-> address, channel |-> "webData2", params |-> <<>>]
ChannelRequest(channel, params) == [kind |-> "channel", address |-> <<>>, channel |-> channel, params |-> params]
NoRequest == [kind |-> "none", address |-> <<>>, channel |-> "", params |-> <<>>]
Requests == { UserRequest(a) : a \in Addresses } \cup { ChannelRequest("allMeta", <<>>) }

\* The registry key and the wire subscription of a request.
KeyOf(r) ==
  IF r.kind = "user" THEN WebData2Key(ToLowerCase(r.address))
  ELSE SubscriptionKey(r.channel, r.params)
WireParams(r) ==
  IF r.kind = "user" THEN << <<"user", ToLowerCase(r.address)>> >> ELSE r.params
SubscribeFrame(r) == Frame("subscribe", r.channel, WireParams(r))
UnsubscribeFrame(r) == Frame("unsubscribe", r.channel, WireParams(r))

TypeOK ==
  /\ service \in {"account", "socket", "view"}
  /\ websocket \in Sockets \cup {NoSocket}
  /\ readyState \in [Sockets -> {"NONE", "CONNECTING", "OPEN", "CLOSING", "CLOSED"}]
  /\ handlers \in [Sockets -> BOOLEAN]
  /\ connectionTimeout \in [Sockets -> BOOLEAN]
  /\ DOMAIN sent = Sockets
  /\ reconnectAttempts \in 0..MAX_RECONNECT_ATTEMPTS
  /\ reconnectTimer \in BOOLEAN
  /\ strayReconnectTimers \in Nat
  /\ isIntentionalClose \in BOOLEAN
  /\ pingInterval \in BOOLEAN
  /\ connectionHealthCheckInterval \in BOOLEAN
  /\ strayIntervals \in Nat
  /\ websocketStatus \in {"connecting", "connected", "disconnected", "error"}
  /\ pc \in [Consumers -> {"idle", "fetch", "connect", "subscribed", "rejected"}]
  /\ req \in [Consumers -> Requests \cup {NoRequest}]
  /\ awaiting \in [Consumers -> Sockets \cup {NoSocket}]
  /\ torn \in [Consumers -> BOOLEAN]
  /\ unsubCalls \in [Consumers -> 0..MaxUnsubCalls]
  /\ notified \subseteq Consumers
  /\ callBudget \in Nat
  /\ directCalls \in 0..callBudget
  /\ faultBudget \in Nat
  /\ failures \in 0..faultBudget
  /\ timerAttempts \in Nat
  /\ exhausted \in BOOLEAN
  /\ pongOverdue \in BOOLEAN
  /\ closeCause \in [Sockets -> {"none", "timeout", "noPong"}]
  /\ ws \in Sockets \cup {NoSocket}
  /\ reconnectTimeout \in BOOLEAN
  /\ connectionStatus \in {"connecting", "connected", "disconnected", "error"}
  /\ listenerBudget \in Nat
  /\ listenerCounts \in [Events -> 0..listenerBudget]
  /\ listeners \in [Events -> 0..listenerBudget]
  /\ handed \in {"none", "prices", "cache"}
  /\ prices \in Mids \cup {<<>>, Scribbled}
  /\ cachedMidPrices \in Mids \cup {<<>>, Scribbled}
  /\ lastPongTime \in {"null", "receipt"}
  /\ \A i \in DOMAIN emitted : emitted[i].event \in Events \cup {"PONG_RECEIVED"}
  /\ Len(direct) \in Nat
  /\ account \in Wallets \cup {NoAccount}
  /\ subscription \in {"none", "fetching", "live"}
  /\ accountState.defined \in BOOLEAN
  /\ isLoading \in BOOLEAN
  /\ maintenanceMargin \in Margins \cup {"0"}
  /\ incoming.defined \in BOOLEAN
  /\ previous.defined \in BOOLEAN
  /\ returned \in {"none", "prev", "incoming", "copy"}
  /\ knownMargin \in Margins \cup {Absent}
  /\ inbound \in {"none", "stray", "ack", "malformed", "loose", "junk", "bare", "emptyMids"}
  /\ messageCallbacks \in Seq(Observers)
  /\ pulsed \in [Observers -> Nat]
  /\ delay \in Nat

InitState ==
  /\ websocket = NoSocket
  /\ readyState = [s \in Sockets |-> "NONE"]
  /\ handlers = [s \in Sockets |-> FALSE]
  /\ connectionTimeout = [s \in Sockets |-> FALSE]
  /\ sent = [s \in Sockets |-> EmptyBag]
  /\ websocketSubscriptions = EmptyBag
  /\ reconnectAttempts = 0
  /\ reconnectTimer = FALSE
  /\ strayReconnectTimers = 0
  /\ isIntentionalClose = FALSE
  /\ pingInterval = FALSE
  /\ connectionHealthCheckInterval = FALSE
  /\ strayIntervals = 0
  /\ websocketStatus = "disconnected"
  /\ pongOverdue = FALSE
  /\ closeCause = [s \in Sockets |-> "none"]
  /\ timerAttempts = 0
  /\ pc = [c \in Consumers |-> "idle"]
  /\ req = [c \in Consumers |-> NoRequest]
  /\ awaiting = [c \in Consumers |-> NoSocket]
  /\ torn = [c \in Consumers |-> FALSE]
  /\ unsubCalls = [c \in Consumers |-> 0]
  /\ notified = {}
  /\ directCalls = 0
  /\ failures = 0
  /\ exhausted = FALSE
  /\ ws = NoSocket
  /\ reconnectTimeout = FALSE
  /\ connectionStatus = "disconnected"
  /\ listenerCounts = [e \in Events |-> 0]
  /\ prices = <<>>
  /\ lastPongTime = "null"
  /\ cachedMidPrices = <<>>
  /\ emitted = <<>>
  /\ direct = <<>>
  /\ listeners = [e \in Events |-> 0]
  /\ handed = "none"
  /\ account = NoAccount
  /\ subscription = "none"
  /\ accountState = NoState
  /\ isLoading = FALSE
  /\ maintenanceMargin = "0"
  /\ incoming = NoState
  /\ returned = "none"
  /\ previous = NoState
  /\ knownMargin = Absent
  /\ inbound = "none"
  /\ messageCallbacks = <<>>
  /\ pulsed = NoPulse
  /\ delay = 0

\* The environment may drop a connection or hold up its opening, and the
\* count of such faults afterwards.
MayFail == faultBudget = 0 \/ failures < faultBudget
AfterFault == IF faultBudget = 0 THEN failures ELSE failures + 1

\* ------------------------------------------------ account service: helpers
Put(reg, k, v) == [x \in DOMAIN reg \cup {k} |-> IF x = k THEN v ELSE reg[x]]
\* websocketSubscriptions.delete(key) left out.
DeleteNothing(reg, k) == reg

Delete(reg, k) == [x \in DOMAIN reg \ {k} |-> reg[x]]

\* Slots holding neither a socket nor a pending connection timeout.
FreeSlots == { s \in Sockets : readyState[s] = "NONE" /\ ~connectionTimeout[s] }
NewSocket == CHOOSE s \in FreeSlots : \A t \in FreeSlots : s <= t

\* The promise of an initializeWebSocket call settles in the onopen handler of
\* its socket (resolve) or in its connection timeout (reject).  Once the
\* socket has lost its handlers and the timer is gone it never settles: the
\* awaiting call is left with no socket.
Orphan(aw, rs, ct) ==
  [c \in Consumers |->
     IF aw[c] # NoSocket /\ rs[aw[c]] = "NONE" /\ ~ct[aw[c]] THEN NoSocket ELSE aw[c]]

\* `websocket == null || websocket.readyState !== WebSocket.OPEN`
NotOpen == websocket = NoSocket \/ readyState[websocket] # "OPEN"

\* updateWebSocketStatus(status)
UpdateWebSocketStatus(status) ==
  websocketStatus' = status

\* initializeWebSocket(), called for consumer c (NoConsumer: nobody awaits the
\* promise).  The previous socket, if any, loses its handlers and is closed.
InitializeWebSocket(c) ==
  /\ FreeSlots # {}
  /\ LET new == NewSocket
         old == websocket
         rs == [s \in Sockets |-> IF s = new THEN "CONNECTING"
                                  ELSE IF s = old THEN "NONE" ELSE readyState[s]]
         ct == [connectionTimeout EXCEPT ![new] = TRUE]
     IN /\ reconnectTimer' = FALSE
        /\ UpdateWebSocketStatus("connecting")
        /\ websocket' = new
        /\ readyState' = rs
        /\ handlers' = [s \in Sockets |-> IF s = new THEN TRUE
                                          ELSE IF s = old THEN FALSE ELSE handlers[s]]
        /\ sent' = [s \in Sockets |-> IF s = new \/ s = old THEN EmptyBag ELSE sent[s]]
        /\ pingInterval' = FALSE
        /\ connectionHealthCheckInterval' = FALSE
        /\ connectionTimeout' = ct
        /\ awaiting' = Orphan([x \in Consumers |-> IF x = c THEN new ELSE awaiting[x]], rs, ct)
        /\ closeCause' = [s \in Sockets |-> IF s = old THEN "none" ELSE closeCause[s]]
  /\ UNCHANGED << websocketSubscriptions, reconnectAttempts, isIntentionalClose,
                  strayIntervals >>

\* The resubscribe loop of onopen: the frame rebuilt from one registry key, if
\* the key splits into a type and a parsable parameter string.
ResubscribeFrames(key) ==
  LET pieces == Split(key, ":", 2)
  IN IF Len(pieces) < 2 \/ pieces[1] = <<>> \/ pieces[2] = <<>> THEN {}
     ELSE LET parsed == JsonParse(pieces[2])
          IN IF parsed.ok THEN { Frame("subscribe", pieces[1][1], parsed.params) } ELSE {}

RECURSIVE Resubscribe(_, _, _, _)
Resubscribe(log, rs, sock, keys) ==
  IF keys = {} THEN log
  ELSE LET k == CHOOSE x \in keys : TRUE
           frames == ResubscribeFrames(k)
           log1 == IF frames = {} \/ sock = NoSocket THEN log
                   ELSE SendOn(log, rs, sock, CHOOSE f \in frames : TRUE)
       IN Resubscribe(log1, rs, sock, keys \ {k})

\* What the rest of a subscribe call does once the connection is there
\* (subscribeToChannel lines 519-551, subscribeToUserState lines 587-740).
Continue(c, r, log, rs, sock, reg) ==
  IF r.kind = "channel" /\ SendThrows(rs, sock)
  THEN [pc |-> "rejected", sent |-> log, reg |-> reg]
  ELSE [pc |-> "subscribed",
        sent |-> SendOn(log, rs, sock, SubscribeFrame(r)),
        reg |-> Put(reg, KeyOf(r), c)]

\* -------------------------------------------- account service: connection
\* The UI calls initializeWebSocket() itself (WebSocketStatusIndicator).
CallInitializeWebSocket ==
  /\ service = "account"
  /\ directCalls < callBudget
  /\ directCalls' = directCalls + 1
  /\ InitializeWebSocket(NoConsumer)
  /\ UNCHANGED strayReconnectTimers
  /\ notified' = {}
  /\ UNCHANGED << service, pc, req, torn, unsubCalls, timerAttempts, failures, faultBudget, callBudget, exhausted, pongOverdue, socketVars, viewVars, delay >>
  /\ Quiet

\* closeWebSocketConnection()
CloseWebSocketConnection ==
  /\ service = "account"
  /\ directCalls < callBudget
  /\ directCalls' = directCalls + 1
  /\ reconnectTimer' = FALSE
  /\ pingInterval' = FALSE
  /\ connectionHealthCheckInterval' = FALSE
  /\ readyState' = [s \in Sockets |-> IF s = websocket /\ readyState[s] \in {"CONNECTING", "OPEN"}
                                      THEN "CLOSING" ELSE readyState[s]]
  /\ isIntentionalClose' = FALSE
  /\ websocket' = NoSocket
  /\ UpdateWebSocketStatus("disconnected")
  /\ notified' = {}
  /\ UNCHANGED << service, handlers, connectionTimeout, sent, websocketSubscriptions,
                  reconnectAttempts, strayReconnectTimers, strayIntervals, timerAttempts,
                  pc, req, awaiting, torn, unsubCalls, failures, faultBudget, callBudget, exhausted, pongOverdue, closeCause, socketVars, viewVars, delay >>
  /\ Quiet

\* The open event of socket s: its onopen handler, then the continuation of
\* the call awaiting it.
OnOpen(s) ==
  /\ service = "account"
  /\ handlers[s] /\ readyState[s] = "CONNECTING"
  /\ LET rs == [readyState EXCEPT ![s] = "OPEN"]
         ct == [connectionTimeout EXCEPT ![s] = FALSE]
         log1 == SendOn(sent, rs, websocket, PingFrame)
         log2 == Resubscribe(log1, rs, websocket, DOMAIN websocketSubscriptions)
         waiters == { c \in Consumers : pc[c] = "connect" /\ awaiting[c] = s }
     IN /\ readyState' = rs
        /\ connectionTimeout' = ct
        /\ UpdateWebSocketStatus("connected")
        /\ reconnectAttempts' = 0
        /\ timerAttempts' = 0
        /\ pongOverdue' = FALSE
        /\ strayIntervals' = IF pingInterval THEN Min(strayIntervals + 1, MaxStray)
                              ELSE strayIntervals
        /\ pingInterval' = TRUE
        /\ connectionHealthCheckInterval' = TRUE
        /\ IF waiters = {}
           THEN /\ sent' = log2
                /\ UNCHANGED << websocketSubscriptions, pc, awaiting >>
           ELSE LET c == CHOOSE x \in waiters : TRUE
                    k == Continue(c, req[c], log2, rs, websocket, websocketSubscriptions)
                IN /\ sent' = k.sent
                   /\ websocketSubscriptions' = k.reg
                   /\ pc' = [pc EXCEPT ![c] = k.pc]
                   /\ awaiting' = [awaiting EXCEPT ![c] = NoSocket]
  /\ notified' = {}
  /\ UNCHANGED << service, websocket, handlers, reconnectTimer, strayReconnectTimers,
                  isIntentionalClose, req, torn, unsubCalls, directCalls, failures, faultBudget, callBudget, exhausted, closeCause, socketVars, viewVars, delay >>
  /\ Quiet

\* onclose treating a close that the client's own liveness check asked for
\* (code 1000, 'No pong received') as a normal close.
ReconnectUnlessNoPong(s) ==
  isIntentionalClose = FALSE /\ reconnectAttempts < MAX_RECONNECT_ATTEMPTS /\ closeCause[s] # "noPong"

\* The condition under which the onclose handler of socket s schedules a
\* reconnect; the close code of the event is only logged.
ReconnectAllowed(s) == isIntentionalClose = FALSE /\ reconnectAttempts < MAX_RECONNECT_ATTEMPTS

\* The close event of socket s (after close(), or the transport failing): its
\* onclose handler.  When the transport failed, the error event is fired in the
\* same task just before; the status onerror sets is overwritten here.
HandleClose(s) ==
  /\ service = "account"
  /\ handlers[s] /\ readyState[s] \in {"CONNECTING", "OPEN", "CLOSING"}
  /\ LET rs == [readyState EXCEPT ![s] = "NONE"]
         ct == [connectionTimeout EXCEPT ![s] = FALSE]
         again == ReconnectAllowed(s)
     IN /\ readyState' = rs
        /\ connectionTimeout' = ct
        /\ handlers' = [handlers EXCEPT ![s] = FALSE]
        /\ sent' = [sent EXCEPT ![s] = EmptyBag]
        /\ pingInterval' = FALSE
        /\ connectionHealthCheckInterval' = FALSE
        /\ websocketStatus' = "disconnected"
        /\ websocket' = NoSocket
        /\ reconnectAttempts' = IF again THEN reconnectAttempts + 1 ELSE reconnectAttempts
        /\ reconnectTimer' = (again \/ reconnectTimer)
        /\ strayReconnectTimers' = IF again /\ reconnectTimer THEN strayReconnectTimers + 1
                                   ELSE strayReconnectTimers
        /\ exhausted' = (exhausted \/ (~again /\ reconnectAttempts >= MAX_RECONNECT_ATTEMPTS))
        /\ awaiting' = Orphan(awaiting, rs, ct)
        /\ closeCause' = [closeCause EXCEPT ![s] = "none"]
  /\ notified' = {}
  /\ UNCHANGED << service, websocketSubscriptions, isIntentionalClose, strayIntervals,
                  timerAttempts, pc, req, torn, unsubCalls, directCalls, pongOverdue, socketVars, viewVars, delay >>
  /\ Quiet

\* The close event: it ends a close() of the client, or it is a fault.
OnClose(s) ==
  /\ readyState[s] = "CLOSING" \/ MayFail
  /\ HandleClose(s)
  /\ failures' = IF readyState[s] = "CLOSING" THEN failures ELSE AfterFault
  /\ UNCHANGED << faultBudget, callBudget >>

\* The connection timeout set by the initializeWebSocket call that created
\* socket s fires.  It looks at the module's current socket.
ConnectionTimeout(s) ==
  /\ service = "account"
  /\ connectionTimeout[s]
  /\ LET ct == [connectionTimeout EXCEPT ![s] = FALSE]
         hit == websocket # NoSocket /\ readyState[websocket] # "OPEN"
         slow == hit /\ readyState[websocket] = "CONNECTING"
         rs == [x \in Sockets |-> IF hit /\ x = websocket /\ readyState[x] = "CONNECTING"
                                  THEN "CLOSING" ELSE readyState[x]]
         rejected == { c \in Consumers : hit /\ pc[c] = "connect" /\ awaiting[c] = s }
     IN /\ slow => MayFail
        /\ failures' = IF slow THEN AfterFault ELSE failures
        /\ connectionTimeout' = ct
        /\ readyState' = rs
        /\ closeCause' = [x \in Sockets |-> IF rs[x] # readyState[x] THEN "timeout" ELSE closeCause[x]]
        /\ IF hit THEN UpdateWebSocketStatus("error") ELSE UNCHANGED websocketStatus
        /\ pc' = [c \in Consumers |-> IF c \in rejected THEN "rejected" ELSE pc[c]]
        /\ awaiting' = Orphan([c \in Consumers |-> IF c \in rejected THEN NoSocket ELSE awaiting[c]],
                              rs, ct)
  /\ notified' = {}
  /\ UNCHANGED << service, websocket, handlers, sent, websocketSubscriptions,
                  reconnectAttempts, reconnectTimer, strayReconnectTimers, isIntentionalClose,
                  pingInterval, connectionHealthCheckInterval, strayIntervals, timerAttempts,
                  req, torn, unsubCalls, directCalls, faultBudget, callBudget, exhausted, pongOverdue, socketVars, viewVars, delay >>
  /\ Quiet

\* The reconnect timer the module refers to fires: initializeWebSocket().
ReconnectTimerFires ==
  /\ service = "account"
  /\ reconnectTimer
  /\ InitializeWebSocket(NoConsumer)
  /\ UNCHANGED strayReconnectTimers
  /\ timerAttempts' = Min(timerAttempts + 1, MAX_RECONNECT_ATTEMPTS + 1)
  /\ notified' = {}
  /\ UNCHANGED << service, pc, req, torn, unsubCalls, directCalls, failures, faultBudget, callBudget, exhausted, pongOverdue, socketVars, viewVars, delay >>
  /\ Quiet

\* A reconnect timer the module no longer refers to fires: initializeWebSocket().
StrayReconnectTimerFires ==
  /\ service = "account"
  /\ strayReconnectTimers > 0
  /\ InitializeWebSocket(NoConsumer)
  /\ strayReconnectTimers' = strayReconnectTimers - 1
  /\ timerAttempts' = Min(timerAttempts + 1, MAX_RECONNECT_ATTEMPTS + 1)
  /\ notified' = {}
  /\ UNCHANGED << service, pc, req, torn, unsubCalls, directCalls, failures, faultBudget, callBudget, exhausted, pongOverdue, socketVars, viewVars, delay >>
  /\ Quiet

\* A tick of a ping interval: a ping on the module's socket if it is open.
PingTick ==
  /\ service = "account"
  /\ pingInterval \/ strayIntervals > 0
  /\ websocket # NoSocket /\ readyState[websocket] = "OPEN"
  /\ sent' = SendOn(sent, readyState, websocket, PingFrame)
  /\ notified' = {}
  /\ UNCHANGED << service, websocket, readyState, handlers, connectionTimeout,
                  websocketSubscriptions, reconnectAttempts, reconnectTimer,
                  strayReconnectTimers, isIntentionalClose, pingInterval,
                  connectionHealthCheckInterval, strayIntervals, websocketStatus,
                  timerAttempts, pc, req, awaiting, torn, unsubCalls, directCalls, failures, faultBudget, callBudget, exhausted, pongOverdue, closeCause, socketVars, viewVars, delay >>
  /\ Quiet

\* A minute has passed on the clock since lastPongReceived was last written
\* (by onopen or by a recognised pong): the server has been silent.  The value
\* is read only by the health check of an open socket.
PongWindowExpires ==
  /\ service = "account"
  /\ websocket # NoSocket /\ readyState[websocket] = "OPEN"
  /\ ~pongOverdue
  /\ MayFail
  /\ failures' = AfterFault
  /\ pongOverdue' = TRUE
  /\ notified' = {}
  /\ UNCHANGED << service, websocket, readyState, handlers, connectionTimeout, sent,
                  websocketSubscriptions, reconnectAttempts, reconnectTimer,
                  strayReconnectTimers, isIntentionalClose, pingInterval,
                  connectionHealthCheckInterval, strayIntervals, websocketStatus,
                  timerAttempts, pc, req, awaiting, torn, unsubCalls, directCalls,
                  faultBudget, callBudget, exhausted, closeCause, socketVars, viewVars, delay >>
  /\ Quiet

\* A tick of a health-check interval that finds the last pong older than a
\* minute: websocket.close(1000, 'No pong received') on the module's socket.
\* (A tick that finds the socket not open, or the pong recent, does nothing.)
HealthCheckTick ==
  /\ service = "account"
  /\ connectionHealthCheckInterval \/ strayIntervals > 0
  /\ websocket # NoSocket /\ readyState[websocket] = "OPEN"
  /\ pongOverdue
  /\ readyState' = [readyState EXCEPT ![websocket] = "CLOSING"]
  /\ closeCause' = [closeCause EXCEPT ![websocket] = "noPong"]
  /\ notified' = {}
  /\ UNCHANGED << service, websocket, handlers, connectionTimeout, sent,
                  websocketSubscriptions, reconnectAttempts, reconnectTimer,
                  strayReconnectTimers, isIntentionalClose, pingInterval,
                  connectionHealthCheckInterval, strayIntervals, websocketStatus,
                  timerAttempts, pc, req, awaiting, torn, unsubCalls, directCalls,
                  failures, faultBudget, callBudget, exhausted, pongOverdue, socketVars, viewVars, delay >>
  /\ Quiet

\* --------------------------------------------- account service: consumers
\* After the (optional) baseline fetch: connect if needed, else go on at once.
ConnectOrContinue(c, r) ==
  IF NotOpen
  THEN /\ InitializeWebSocket(c)
       /\ pc' = [pc EXCEPT ![c] = "connect"]
       /\ UNCHANGED strayReconnectTimers
  ELSE LET k == Continue(c, r, sent, readyState, websocket, websocketSubscriptions)
       IN /\ sent' = k.sent
          /\ websocketSubscriptions' = k.reg
          /\ pc' = [pc EXCEPT ![c] = k.pc]
                  /\ UNCHANGED << websocket, readyState, handlers, connectionTimeout,
                          reconnectAttempts, reconnectTimer, strayReconnectTimers,
                          isIntentionalClose, pingInterval, connectionHealthCheckInterval,
                          strayIntervals, websocketStatus, awaiting, closeCause >>

\* subscribeToChannel(channel, params, callback), up to its first await.
SubscribeToChannel(c, r) ==
  /\ service = "account"
  /\ pc[c] = "idle" /\ r.kind = "channel"
  /\ req' = [req EXCEPT ![c] = r]
  /\ ConnectOrContinue(c, r)
  /\ notified' = {}
  /\ UNCHANGED << service, torn, unsubCalls, directCalls, timerAttempts, failures, faultBudget, callBudget, exhausted, pongOverdue, socketVars, viewVars, delay >>
  /\ Quiet

\* subscribeToUserState(address, onUpdate), up to `await fetchClearinghouseState`.
SubscribeToUserState(c, r) ==
  /\ service = "account"
  /\ pc[c] = "idle" /\ r.kind = "user"
  /\ req' = [req EXCEPT ![c] = r]
  /\ pc' = [pc EXCEPT ![c] = "fetch"]
  /\ notified' = {}
  /\ UNCHANGED << service, websocket, readyState, handlers, connectionTimeout, sent,
                  websocketSubscriptions, reconnectAttempts, reconnectTimer,
                  strayReconnectTimers, isIntentionalClose, pingInterval,
                  connectionHealthCheckInterval, strayIntervals, websocketStatus,
                  timerAttempts, awaiting, torn, unsubCalls, directCalls, failures, faultBudget, callBudget, exhausted, pongOverdue, closeCause, socketVars, viewVars, delay >>
  /\ Quiet

\* The baseline fetch returns (data, or undefined on any failure): onUpdate
\* with the data, then the connection step.
FetchReturns(c, gotData) ==
  /\ service = "account"
  /\ pc[c] = "fetch"
  /\ notified' = IF gotData THEN {c} ELSE {}
  /\ ConnectOrContinue(c, req[c])
  /\ UNCHANGED << service, req, torn, unsubCalls, directCalls, timerAttempts, failures, faultBudget, callBudget, exhausted, pongOverdue, socketVars, viewVars, delay >>
  /\ Quiet

\* The body of a returned unsubscribe function.
RunUnsubscribe(c) ==
  /\ sent' = SendOn(sent, readyState, websocket, UnsubscribeFrame(req[c]))
  /\ websocketSubscriptions' = Delete(websocketSubscriptions, KeyOf(req[c]))
  /\ unsubCalls' = [unsubCalls EXCEPT ![c] = @ + 1]

\* The consumer is torn down (the effect cleanup of MainView): it calls the
\* unsubscribe function if the subscribe call has returned one.
Cleanup(c) ==
  /\ service = "account"
  /\ ~torn[c] /\ pc[c] \in {"fetch", "connect", "subscribed"}
  /\ torn' = [torn EXCEPT ![c] = TRUE]
  /\ IF pc[c] = "subscribed" THEN RunUnsubscribe(c)
     ELSE UNCHANGED << sent, websocketSubscriptions, unsubCalls >>
  /\ notified' = {}
  /\ UNCHANGED << service, websocket, readyState, handlers, connectionTimeout,
                  reconnectAttempts, reconnectTimer, strayReconnectTimers,
                  isIntentionalClose, pingInterval, connectionHealthCheckInterval,
                  strayIntervals, websocketStatus, timerAttempts, pc, req, awaiting,
                  directCalls, failures, faultBudget, callBudget, exhausted, pongOverdue, closeCause, socketVars, viewVars, delay >>
  /\ Quiet

\* The returned unsubscribe function is called once more.
UnsubscribeAgain(c) ==
  /\ service = "account"
  /\ pc[c] = "subscribed" /\ unsubCalls[c] > 0 /\ unsubCalls[c] < MaxUnsubCalls
  /\ RunUnsubscribe(c)
  /\ notified' = {}
  /\ UNCHANGED << service, websocket, readyState, handlers, connectionTimeout,
                  reconnectAttempts, reconnectTimer, strayReconnectTimers,
                  isIntentionalClose, pingInterval, connectionHealthCheckInterval,
                  strayIntervals, websocketStatus, timerAttempts, pc, req, awaiting,
                  torn, directCalls, failures, faultBudget, callBudget, exhausted, pongOverdue, closeCause, socketVars, viewVars, delay >>
  /\ Quiet

\* The three encodings of a liveness response, as the text of a frame.
PongText == <<"pong">>
PongChannel == JsonStringify(<< <<"channel", <<"pong">>>> >>)
PongType == JsonStringify(<< <<"type", <<"pong">>>> >>)
PongFrames == {PongText, PongChannel, PongType}

\* message[key] of a parsed object.
Has(params, key) == \E i \in DOMAIN params : params[i][1] = key
Member(params, key) == params[CHOOSE i \in DOMAIN params : params[i][1] = key][2]

\* handleWebSocketMessage: `event.data === 'pong'`.
IsPongText(data) == data = PongText

\* handleWebSocketMessage on the text of a frame whose members are strings:
\* the callbacks it is routed to.  (webData2 wants an object in `data`; any
\* other channel is routed by key prefix when `channel` and `data` are there.)
RouteText(reg, data) ==
  IF IsPongText(data) THEN {}
  ELSE LET message == JsonParse(data)
       IN IF ~message.ok THEN {}
          ELSE IF Has(message.params, "channel")
                    /\ Member(message.params, "channel") = <<"subscriptionResponse">> THEN {}
          ELSE IF ~Has(message.params, "channel") \/ ~Has(message.params, "data") THEN {}
          ELSE IF Member(message.params, "channel") = <<"webData2">> THEN {}
          ELSE { reg[k] : k \in { x \in DOMAIN reg :
                                    Len(x) >= 2 /\ <<x[1]>> = Member(message.params, "channel")
                                                /\ x[2] = ":" } }

\* The server answers a ping on socket s with a pong, in one of its encodings.
OnPong(s, data) ==
  /\ service = "account"
  /\ handlers[s] /\ readyState[s] = "OPEN"
  /\ Count(sent[s], PingFrame) > 0
  /\ pongOverdue' = IF IsPongText(data) THEN FALSE ELSE pongOverdue
  /\ notified' = RouteText(websocketSubscriptions, data)
  /\ UNCHANGED << service, websocket, readyState, handlers, connectionTimeout, sent,
                  websocketSubscriptions, reconnectAttempts, reconnectTimer,
                  strayReconnectTimers, isIntentionalClose, pingInterval,
                  connectionHealthCheckInterval, strayIntervals, websocketStatus,
                  timerAttempts, pc, req, awaiting, torn, unsubCalls, directCalls, failures,
                  faultBudget, callBudget, exhausted, closeCause, socketVars, viewVars, delay >>
  /\ inbound' = "none"
  /\ pulsed' = Pulse(messageCallbacks)
  /\ UNCHANGED messageCallbacks

\* Frames that are no data: the acknowledgment of a subscription, text that
\* is not JSON, and an object without a channel.
AckText == JsonStringify(<< <<"channel", <<"subscriptionResponse">>>>, <<"data", <<"subscribe">>>> >>)
GarbageText == <<"<html>">>
NoChannelText == JsonStringify(<< <<"data", <<"webData2">>>> >>)
TextFrames == {AckText, GarbageText, NoChannelText}

\* Such a frame arrives on socket s.
OnText(s, data) ==
  /\ service = "account"
  /\ handlers[s] /\ readyState[s] = "OPEN"
  /\ pongOverdue' = IF IsPongText(data) THEN FALSE ELSE pongOverdue
  /\ notified' = RouteText(websocketSubscriptions, data)
  /\ inbound' = IF data = AckText THEN "ack" ELSE "malformed"
  /\ pulsed' = Pulse(messageCallbacks)
  /\ UNCHANGED messageCallbacks
  /\ UNCHANGED << service, websocket, readyState, handlers, connectionTimeout, sent,
                  websocketSubscriptions, reconnectAttempts, reconnectTimer,
                  strayReconnectTimers, isIntentionalClose, pingInterval,
                  connectionHealthCheckInterval, strayIntervals, websocketStatus,
                  timerAttempts, pc, req, awaiting, torn, unsubCalls, directCalls, failures,
                  faultBudget, callBudget, exhausted, closeCause, socketVars, viewVars, delay >>

\* The data of a webData2 frame, by what the decoding looks at: the position
\* list (absent, an array of positions, or an array asAssetPosition rejects)
\* and withdrawable (absent, a string, or the number 0).
Payload(positions, withdrawable) == [assetPositions |-> positions, withdrawable |-> withdrawable]
ValidPayload == Payload("array", "10")
LoosePayload == Payload("loose", "10")
JunkPayload == Payload("absent", "number:0")
BarePayload == Payload("absent", Absent)

\* asWsWebdata2(rawWsData) returns rather than throws.
asWsWebdata2(data) == data.assetPositions # "loose" /\ data.withdrawable # "number:0"

\* The fallback taking every payload to carry account fields.
AnyPayloadCarries(data) == TRUE

\* data.assetPositions || data.withdrawable
CarriesState(data) ==
  data.assetPositions \in {"array", "loose"} \/ data.withdrawable \notin {Absent, "number:0"}

\* processUserData(rawWsData) reaches onUpdate: on the validated data if one
\* of its fields is there, else through the fallback on the raw data.
processUserData(data) ==
  IF asWsWebdata2(data) THEN CarriesState(data)
  ELSE CarriesState(data)

\* Inbound data frames: {channel, data}, data.user on the account channel.
DataFrames ==
  { [channel |-> "webData2", user |-> ToLowerCase(a), data |-> ValidPayload] : a \in Addresses }
    \cup { [channel |-> "allMeta", user |-> <<>>, data |-> ValidPayload] }

\* A webData2 frame for a user this client never asked about.
Stranger == <<"0", "x", "c", "d">>
StrayFrames == { [channel |-> "webData2", user |-> Stranger, data |-> ValidPayload] }

\* webData2 frames of a requested user whose data is not the expected shape.
MisshapenFrames ==
  { [channel |-> "webData2", user |-> ToLowerCase(a), data |-> d] :
      a \in Addresses, d \in {LoosePayload, JunkPayload, BarePayload} }

FrameKind(m) ==
  IF m \in StrayFrames THEN "stray"
  ELSE IF m.data = LoosePayload THEN "loose"
  ELSE IF m.data = JunkPayload THEN "junk"
  ELSE IF m.data = BarePayload THEN "bare"
  ELSE "none"

\* The subscribe frame that makes the server push frame m.
Feeds(m) ==
  IF m.channel = "webData2" THEN Frame("subscribe", "webData2", << <<"user", m.user>> >>)
  ELSE Frame("subscribe", m.channel, <<>>)

\* Routing by channel prefix for every channel, webData2 included.
RouteByChannel(reg, m) ==
  { reg[k] : k \in { x \in DOMAIN reg : Len(x) >= 2 /\ x[1] = m.channel /\ x[2] = ":" } }

\* handleWebSocketMessage: the callbacks a data frame is routed to.
Route(reg, m) ==
  IF m.channel = "webData2"
  THEN IF WebData2Key(m.user) \in DOMAIN reg THEN { reg[WebData2Key(m.user)] } ELSE {}
  ELSE { reg[k] : k \in { x \in DOMAIN reg : Len(x) >= 2 /\ x[1] = m.channel /\ x[2] = ":" } }

\* The consumers whose callback ends up called for frame m: the callback of
\* subscribeToChannel is the consumer's, that of subscribeToUserState is
\* processUserData, which calls the consumer's onUpdate.
Delivered(reg, m) ==
  { c \in Route(reg, m) : req[c].kind = "channel" \/ processUserData(m.data) }

\* A data frame arrives on socket s, for a subscription requested on s (or
\* for a user nobody here asked about).
OnMessage(s, m) ==
  /\ service = "account"
  /\ handlers[s] /\ readyState[s] = "OPEN"
  /\ m \in StrayFrames \/ Count(sent[s], Feeds(m)) > 0
  /\ notified' = Delivered(websocketSubscriptions, m)
  /\ inbound' = FrameKind(m)
  /\ pulsed' = Pulse(messageCallbacks)
  /\ UNCHANGED messageCallbacks
  /\ UNCHANGED << service, websocket, readyState, handlers, connectionTimeout, sent,
                  websocketSubscriptions, reconnectAttempts, reconnectTimer,
                  strayReconnectTimers, isIntentionalClose, pingInterval,
                  connectionHealthCheckInterval, strayIntervals, websocketStatus,
                  timerAttempts, pc, req, awaiting, torn, unsubCalls, directCalls, failures, faultBudget, callBudget, exhausted, pongOverdue, closeCause, socketVars, viewVars, delay >>

InitAccount ==
  /\ service = "account"
  /\ faultBudget = MaxFailures
  /\ callBudget = MaxDisconnects
  /\ listenerBudget = MaxListeners
  /\ InitState

NextAccount ==
  \/ CloseWebSocketConnection
  \/ \E s \in Sockets : OnOpen(s)
  \/ \E s \in Sockets : OnClose(s)
  \/ \E s \in Sockets : ConnectionTimeout(s)
  \/ ReconnectTimerFires
  \/ StrayReconnectTimerFires
  \/ PingTick
  \/ PongWindowExpires
  \/ HealthCheckTick
  \/ \E c \in Consumers, r \in Requests : SubscribeToChannel(c, r)
  \/ \E c \in Consumers, r \in Requests : SubscribeToUserState(c, r)
  \/ \E c \in Consumers, gotData \in BOOLEAN : FetchReturns(c, gotData)
  \/ \E c \in Consumers : Cleanup(c)
  \/ \E c \in Consumers : UnsubscribeAgain(c)
  \/ \E s \in Sockets, m \in DataFrames : OnMessage(s, m)
  \/ \E s \in Sockets, data \in PongFrames : OnPong(s, data)

Spec == InitAccount /\ [][NextAccount]_vars

\* ------------------------------------------------------- socket service
\* The fields of the service (and the sockets) that its methods read and write.
This ==
  [ws |-> ws, readyState |-> readyState, sent |-> sent, pingInterval |-> pingInterval,
   reconnectTimeout |-> reconnectTimeout, reconnectAttempts |-> reconnectAttempts,
   connectionStatus |-> connectionStatus, listenerCounts |-> listenerCounts,
   prices |-> prices, lastPongTime |-> lastPongTime, cachedMidPrices |-> cachedMidPrices,
   emitted |-> <<>>, direct |-> <<>>, listeners |-> listeners, handed |-> "none"]

\* The step leaves the service as the record t says.
Becomes(t) ==
  /\ ws' = t.ws
  /\ readyState' = t.readyState
  /\ sent' = t.sent
  /\ pingInterval' = t.pingInterval
  /\ reconnectTimeout' = t.reconnectTimeout
  /\ reconnectAttempts' = t.reconnectAttempts
  /\ connectionStatus' = t.connectionStatus
  /\ listenerCounts' = t.listenerCounts
  /\ prices' = t.prices
  /\ lastPongTime' = t.lastPongTime
  /\ cachedMidPrices' = t.cachedMidPrices
  /\ emitted' = t.emitted
  /\ direct' = t.direct
  /\ listeners' = t.listeners
  /\ handed' = t.handed

\* this.emitter.emit(event, payload)
emit(this, event, payload) ==
  [this EXCEPT !.emitted = Append(@, [event |-> event, payload |-> payload])]

\* callback(value), on the callback the running subscribe call was given.
call(this, value) == [this EXCEPT !.direct = Append(@, value)]

\* createMidPricesSubscription()
MidPricesSubscription == Frame("subscribe", "allMids", <<>>)

\* A socket object can be placed in slot s: the slot is unused or its socket is closed.
Vacant(rs) == { s \in Sockets : rs[s] \in {"NONE", "CLOSED"} }

setConnectionStatus(this, status) ==
  emit([this EXCEPT !.connectionStatus = status], "CONNECTION_STATUS_CHANGED", status)

clearTimers(this) == [this EXCEPT !.pingInterval = FALSE, !.reconnectTimeout = FALSE]

hasActiveListeners(this) ==
  this.listenerCounts["PRICES_UPDATED"] > 0 \/ this.listenerCounts["CONNECTION_STATUS_CHANGED"] > 0

connect(this) ==
  IF this.ws # NoSocket /\ this.readyState[this.ws] \in {"OPEN", "CONNECTING"}
  THEN this
  ELSE LET new == CHOOSE s \in Vacant(this.readyState) : \A x \in Vacant(this.readyState) : s <= x
           \* the closed socket this.ws referred to is garbage from here on
           rs == [s \in Sockets |-> IF s = new THEN "CONNECTING"
                                     ELSE IF s = this.ws THEN "NONE" ELSE this.readyState[s]]
       IN [setConnectionStatus(this, "connecting") EXCEPT !.ws = new, !.readyState = rs]

disconnect(this) ==
  IF this.ws = NoSocket THEN this
  ELSE LET cleared == clearTimers(this)
           closed == IF this.readyState[this.ws] \in {"OPEN", "CONNECTING"}
                     THEN [cleared EXCEPT !.readyState[this.ws] = "CLOSING"]
                     ELSE cleared
       IN setConnectionStatus([closed EXCEPT !.ws = NoSocket], "disconnected")

sendMessage(this, message) ==
  [this EXCEPT !.sent = SendOn(this.sent, this.readyState, this.ws, message)]

setupPingInterval(this) == [this EXCEPT !.pingInterval = TRUE]

\* handleOpen without `this.reconnectAttempts = 0`.
handleOpenKeepsCount(this) ==
  setupPingInterval(sendMessage(setConnectionStatus(this, "connected"), MidPricesSubscription))

handleOpen(this) ==
  LET opened == [setConnectionStatus(this, "connected") EXCEPT !.reconnectAttempts = 0]
  IN setupPingInterval(sendMessage(opened, MidPricesSubscription))

handleClose(this) ==
  LET cleared == clearTimers(setConnectionStatus(this, "disconnected"))
  IN IF hasActiveListeners(cleared) /\ cleared.reconnectAttempts < MAX_RECONNECT_ATTEMPTS
     THEN [cleared EXCEPT !.reconnectAttempts = @ + 1, !.reconnectTimeout = TRUE]
     ELSE cleared

handleError(this) == setConnectionStatus(this, "error")

trackListenerCount(this, event, increment) ==
  IF increment
  THEN LET counted == [this EXCEPT !.listenerCounts[event] = @ + 1]
       IN IF hasActiveListeners(counted) /\ counted.ws = NoSocket THEN connect(counted) ELSE counted
  ELSE LET counted == [this EXCEPT !.listenerCounts[event] = IF @ = 0 THEN 0 ELSE @ - 1]
       IN IF ~hasActiveListeners(counted) /\ counted.ws # NoSocket THEN disconnect(counted)
          ELSE counted

\* isPongMessage(message) on the text of a frame.  JSON.parse throws on the
\* bare word pong, and the catch returns false; the text "pong" in quotes is a
\* JSON string.
isPongMessage(message) ==
  IF Len(message) = 3 /\ message[1] = "\"" /\ message[3] = "\"" THEN message[2] = "pong"
  ELSE LET data == JsonParse(message)
       IN /\ data.ok
          /\ \/ Has(data.params, "type") /\ Member(data.params, "type") = <<"pong">>
             \/ Has(data.params, "channel") /\ Member(data.params, "channel") = <<"pong">>

\* The frame the server pushes for the allMids subscription.
AllMidsFrame(mids) == JsonStringify(<< <<"channel", <<"allMids">>>>, <<"data", mids>> >>)

\* processMidPricesMessage(message) with the cache as it finds it: the prices
\* it returns and the cache it leaves.  Whatever is not a price message, and
\* whatever does not parse, returns the cached prices.
\* object: the map returned is the cache object itself ("cache"), or a map of
\* its own ("fresh": `cachedMidPrices = { ...midPrices }; return midPrices`).
processMidPricesMessage(message, cache) ==
  LET data == JsonParse(message)
  IN IF ~data.ok THEN [prices |-> cache, cache |-> cache, object |-> "cache"]
     ELSE IF /\ Has(data.params, "channel") /\ Member(data.params, "channel") = <<"allMids">>
             /\ Has(data.params, "data")
          THEN [prices |-> Member(data.params, "data"), cache |-> Member(data.params, "data"),
                object |-> "fresh"]
     ELSE IF Has(data.params, "mids")
          THEN [prices |-> Member(data.params, "mids"), cache |-> Member(data.params, "mids"),
                object |-> "cache"]
     ELSE [prices |-> cache, cache |-> cache, object |-> "cache"]

handleMessage(this, data) ==
  IF isPongMessage(data)
  THEN emit([this EXCEPT !.lastPongTime = "receipt"], "PONG_RECEIVED", "receipt")
  ELSE LET r == processMidPricesMessage(data, this.cachedMidPrices)
           seen == [this EXCEPT !.cachedMidPrices = r.cache]
           \* `this.prices = prices; emit(PRICES_UPDATED, prices)`: the listeners
           \* are given the object the service keeps
           given == IF this.listeners["PRICES_UPDATED"] = 0 THEN "none"
                    ELSE IF r.object = "cache" THEN "cache" ELSE "prices"
       IN IF r.prices # <<>>
          THEN emit([seen EXCEPT !.prices = r.prices, !.handed = given], "PRICES_UPDATED", r.prices)
          ELSE seen

\* this.emitter.on(event, callback) / this.emitter.off(event, callback): off
\* of a callback that is not registered changes nothing.
on(this, event) == [this EXCEPT !.listeners[event] = @ + 1]
off(this, event, registered) ==
  IF registered THEN [this EXCEPT !.listeners[event] = @ - 1] ELSE this

\* `callback({ ...this.prices })`: the callback is given a copy.
subscribeToMidPrices(this) ==
  LET tracked == trackListenerCount(on(this, "PRICES_UPDATED"), "PRICES_UPDATED", TRUE)
  IN IF tracked.prices # <<>> THEN call(tracked, tracked.prices) ELSE tracked

subscribeToConnectionStatus(this) ==
  LET tracked == trackListenerCount(on(this, "CONNECTION_STATUS_CHANGED"),
                                    "CONNECTION_STATUS_CHANGED", TRUE)
  IN call(tracked, tracked.connectionStatus)

\* The unsubscribe function both subscribe methods return; registered: its
\* callback is still on the emitter (the function has not run before).
unsubscribe(this, event, registered) ==
  trackListenerCount(off(this, event, registered), event, FALSE)

\* What a step of the socket service leaves alone.
SocketFrame ==
  UNCHANGED << service, websocket, handlers, connectionTimeout, websocketSubscriptions,
               reconnectTimer, strayReconnectTimers, isIntentionalClose,
               connectionHealthCheckInterval, strayIntervals, websocketStatus,
               consumerVars, faultBudget, callBudget, pongOverdue, closeCause, viewVars,
               listenerBudget, delay >>

\* subscribeToMidPrices(callback) / subscribeToConnectionStatus(callback)
Subscribe(event) ==
  /\ service = "socket"
  /\ listeners[event] < listenerBudget
  /\ Vacant(readyState) # {}
  /\ Becomes(IF event = "PRICES_UPDATED" THEN subscribeToMidPrices(This)
             ELSE subscribeToConnectionStatus(This))
  /\ SocketFrame
  /\ Quiet
  /\ UNCHANGED << directCalls, failures, timerAttempts, exhausted >>

\* A returned unsubscribe function is called (for the first time).
Unsubscribe(event) ==
  /\ service = "socket"
  /\ listeners[event] > 0
  /\ Becomes(unsubscribe(This, event, TRUE))
  /\ SocketFrame
  /\ Quiet
  /\ UNCHANGED << directCalls, failures, timerAttempts, exhausted >>

\* A returned unsubscribe function is called, and called again (an effect
\* cleanup that runs twice).
UnsubscribeTwice(event) ==
  /\ service = "socket"
  /\ listeners[event] > 0
  /\ Becomes(unsubscribe(unsubscribe(This, event, TRUE), event, FALSE))
  /\ SocketFrame
  /\ Quiet
  /\ UNCHANGED << directCalls, failures, timerAttempts, exhausted >>

\* A PRICES_UPDATED listener writes to the map the latest step gave it.
SubscriberMutates ==
  /\ service = "socket"
  /\ handed # "none"
  /\ Becomes([This EXCEPT !.prices = Scribbled,
                          !.cachedMidPrices = IF handed = "cache" THEN Scribbled ELSE @])
  /\ SocketFrame
  /\ Quiet
  /\ UNCHANGED << directCalls, failures, timerAttempts, exhausted >>

\* hyperliquidSocketService.connect(), called by the application.
CallConnect ==
  /\ service = "socket"
  /\ directCalls < callBudget
  /\ Vacant(readyState) # {}
  /\ directCalls' = directCalls + 1
  /\ Becomes(connect(This))
  /\ SocketFrame
  /\ Quiet
  /\ UNCHANGED << failures, timerAttempts, exhausted >>

\* hyperliquidSocketService.disconnect(), called by the application.
CallDisconnect ==
  /\ service = "socket"
  /\ directCalls < callBudget
  /\ directCalls' = directCalls + 1
  /\ Becomes(disconnect(This))
  /\ SocketFrame
  /\ Quiet
  /\ UNCHANGED << failures, timerAttempts, exhausted >>

\* The open event of socket s.
SocketOpens(s) ==
  /\ service = "socket"
  /\ readyState[s] = "CONNECTING"
  /\ Becomes(handleOpen([This EXCEPT !.readyState[s] = "OPEN"]))
  /\ timerAttempts' = 0
  /\ SocketFrame
  /\ Quiet
  /\ UNCHANGED << directCalls, failures, exhausted >>

\* The close event of socket s: it ends a close() of the service, or the
\* transport failed (then the error event comes first).
SocketCloses(s) ==
  /\ service = "socket"
  /\ readyState[s] \in {"CONNECTING", "OPEN", "CLOSING"}
  /\ readyState[s] = "CLOSING" \/ MayFail
  /\ LET gone == [This EXCEPT !.readyState[s] = IF s = ws THEN "CLOSED" ELSE "NONE",
                               !.sent[s] = EmptyBag]
     IN Becomes(handleClose(IF readyState[s] = "CLOSING" THEN gone ELSE handleError(gone)))
  /\ failures' = IF readyState[s] = "CLOSING" THEN failures ELSE AfterFault
  /\ exhausted' = (exhausted \/ (hasActiveListeners(This) /\ reconnectAttempts >= MAX_RECONNECT_ATTEMPTS))
  /\ SocketFrame
  /\ Quiet
  /\ UNCHANGED << directCalls, timerAttempts >>

\* The reconnect timeout fires: connect().
ReconnectTimeoutFires ==
  /\ service = "socket"
  /\ reconnectTimeout
  /\ Vacant(readyState) # {}
  /\ LET fired == [This EXCEPT !.reconnectTimeout = FALSE]
     IN /\ Becomes(connect(fired))
        /\ timerAttempts' = IF connect(fired).ws # ws
                            THEN Min(timerAttempts + 1, MAX_RECONNECT_ATTEMPTS + 1)
                            ELSE timerAttempts
  /\ SocketFrame
  /\ Quiet
  /\ UNCHANGED << directCalls, failures, exhausted >>

\* A tick of the ping interval.
PingIntervalFires ==
  /\ service = "socket"
  /\ pingInterval
  /\ ws # NoSocket /\ readyState[ws] = "OPEN"
  /\ Becomes(sendMessage(This, PingFrame))
  /\ SocketFrame
  /\ Quiet
  /\ UNCHANGED << directCalls, failures, timerAttempts, exhausted >>

\* A frame arrives on socket s: a pong answering a ping sent on s, or the
\* prices the subscription sent on s asked for.
SocketFrames == PongFrames \cup { AllMidsFrame(m) : m \in Mids }

\* The acknowledgment of the allMids subscription, and a push with no price.
AckFrame == JsonStringify(<< <<"channel", <<"subscriptionResponse">>>>, <<"data", <<"allMids">>>> >>)
EmptyMidsFrame == AllMidsFrame(<<>>)

SocketMessage(s, data) ==
  /\ service = "socket"
  /\ readyState[s] = "OPEN"
  /\ IF data \in PongFrames THEN Count(sent[s], PingFrame) > 0
     ELSE Count(sent[s], MidPricesSubscription) > 0
  /\ Becomes(handleMessage(This, data))
  /\ inbound' = IF data = AckFrame THEN "ack" ELSE IF data = EmptyMidsFrame THEN "emptyMids" ELSE "none"
  /\ pulsed' = NoPulse
  /\ UNCHANGED messageCallbacks
  /\ SocketFrame
  /\ UNCHANGED << directCalls, failures, timerAttempts, exhausted >>

\* ------------------------------------------- the connection exercised alone
InitReconnect ==
  /\ service \in {"account", "socket"}
  /\ faultBudget = 0
  /\ callBudget = MaxDirectCalls
  /\ listenerBudget = MaxListeners
  /\ InitState

NextReconnect ==
  \/ CallInitializeWebSocket
  \/ CloseWebSocketConnection
  \/ \E s \in Sockets : OnOpen(s)
  \/ \E s \in Sockets : OnClose(s)
  \/ \E s \in Sockets : ConnectionTimeout(s)
  \/ ReconnectTimerFires
  \/ StrayReconnectTimerFires
  \/ PingTick
  \/ PongWindowExpires
  \/ HealthCheckTick
  \/ \E s \in Sockets, data \in PongFrames : OnPong(s, data)
  \/ \E e \in Events : Subscribe(e)
  \/ \E e \in Events : Unsubscribe(e)
  \/ CallConnect
  \/ CallDisconnect
  \/ \E s \in Sockets : SocketOpens(s)
  \/ \E s \in Sockets : SocketCloses(s)
  \/ ReconnectTimeoutFires
  \/ PingIntervalFires

SpecReconnect == InitReconnect /\ [][NextReconnect]_vars

\* ------------------------------------------------- both services with traffic
InitMessages ==
  /\ service \in {"account", "socket"}
  /\ faultBudget = MaxFailures
  /\ callBudget = MaxDisconnects
  /\ listenerBudget = MaxListeners
  /\ InitState

NextMessages ==
  \/ NextAccount
  \/ \E e \in Events : Subscribe(e)
  \/ \E e \in Events : Unsubscribe(e)
  \/ \E s \in Sockets : SocketOpens(s)
  \/ \E s \in Sockets : SocketCloses(s)
  \/ ReconnectTimeoutFires
  \/ PingIntervalFires
  \/ \E s \in Sockets, data \in SocketFrames : SocketMessage(s, data)

SpecMessages == InitMessages /\ [][NextMessages]_vars

\* ------------------------------- both services with every kind of inbound frame
InitInbound ==
  /\ service \in {"account", "socket"}
  /\ faultBudget = MaxFailures
  /\ callBudget = 0
  /\ listenerBudget = MaxListeners
  /\ InitState

InboundFrames == DataFrames \cup StrayFrames \cup MisshapenFrames
InboundSocketFrames == SocketFrames \cup {AckFrame, EmptyMidsFrame}

NextInbound ==
  \/ \E s \in Sockets : OnOpen(s)
  \/ \E s \in Sockets : OnClose(s)
  \/ \E s \in Sockets : ConnectionTimeout(s)
  \/ ReconnectTimerFires
  \/ PingTick
  \/ PongWindowExpires
  \/ HealthCheckTick
  \/ \E c \in Consumers, r \in Requests : SubscribeToChannel(c, r)
  \/ \E c \in Consumers, r \in Requests : SubscribeToUserState(c, r)
  \/ \E c \in Consumers, gotData \in BOOLEAN : FetchReturns(c, gotData)
  \/ \E c \in Consumers : Cleanup(c)
  \/ \E c \in Consumers : UnsubscribeAgain(c)
  \/ \E s \in Sockets, m \in InboundFrames : OnMessage(s, m)
  \/ \E s \in Sockets, data \in PongFrames : OnPong(s, data)
  \/ \E s \in Sockets, data \in TextFrames : OnText(s, data)
  \/ \E e \in Events : Subscribe(e)
  \/ \E e \in Events : Unsubscribe(e)
  \/ \E s \in Sockets : SocketOpens(s)
  \/ \E s \in Sockets : SocketCloses(s)
  \/ ReconnectTimeoutFires
  \/ PingIntervalFires
  \/ \E s \in Sockets, data \in InboundSocketFrames : SocketMessage(s, data)

SpecInbound == InitInbound /\ [][NextInbound]_vars

\* ------------------------------------------- the reconnect delays alone
\* Delays are held in 1/32 ms, which makes 1.5^5 exact.
RECURSIVE Pow(_, _)
Pow(b, n) == IF n = 0 THEN 1 ELSE b * Pow(b, n - 1)
Scale == Pow(2, 5)

\* Samples of Math.random() * 1000, in ms.
Jitters == { 100 * i : i \in 0..9 } \cup {999}

\* The base delay does not grow.
DelayFlat(attempts, jitter) == RECONNECT_DELAY_MS * Scale + jitter * Scale

\* onclose of the account service: RECONNECT_DELAY_MS * Math.pow(1.5,
\* Math.min(reconnectAttempts - 1, 5)) + jitter, with the counter already incremented.
ReconnectDelay(attempts, jitter) ==
  LET e == Min(attempts - 1, 5)
  IN RECONNECT_DELAY_MS * Pow(3, e) * Pow(2, 5 - e) + jitter * Scale

\* handleClose of the socket service: RECONNECT_INTERVAL * Math.min(2, reconnectAttempts / 3).
SocketReconnectDelay(attempts) ==
  (RECONNECT_INTERVAL * Min(2 * 3, attempts) * Scale) \div 3

BackoffFrame ==
  UNCHANGED << service, websocket, readyState, handlers, connectionTimeout, sent,
               websocketSubscriptions, reconnectTimer, strayReconnectTimers, isIntentionalClose,
               pingInterval, connectionHealthCheckInterval, strayIntervals, websocketStatus,
               timerAttempts, consumerVars, directCalls, failures, faultBudget, callBudget,
               exhausted, pongOverdue, closeCause, ws, reconnectTimeout, connectionStatus,
               listenerCounts, prices, lastPongTime, cachedMidPrices, emitted, direct, listeners,
               handed, listenerBudget, viewVars, inbound, messageCallbacks, pulsed >>

\* An abnormal close of the account service's socket, as far as the delay goes.
AbnormalClose(jitter) ==
  /\ service = "account"
  /\ reconnectAttempts < MAX_RECONNECT_ATTEMPTS
  /\ reconnectAttempts' = reconnectAttempts + 1
  /\ delay' = ReconnectDelay(reconnectAttempts', jitter)
  /\ BackoffFrame

\* A close of the socket service's socket with a listener present.
SocketAbnormalClose ==
  /\ service = "socket"
  /\ reconnectAttempts < MAX_RECONNECT_ATTEMPTS
  /\ reconnectAttempts' = reconnectAttempts + 1
  /\ delay' = SocketReconnectDelay(reconnectAttempts')
  /\ BackoffFrame

\* A successful open: `reconnectAttempts = 0`.
SuccessfulOpen ==
  /\ reconnectAttempts > 0
  /\ reconnectAttempts' = 0
  /\ delay' = 0
  /\ BackoffFrame

InitBackoff ==
  /\ service \in {"account", "socket"}
  /\ faultBudget = 0
  /\ callBudget = 0
  /\ listenerBudget = MaxListeners
  /\ InitState

NextBackoff ==
  \/ \E jitter \in Jitters : AbnormalClose(jitter)
  \/ SocketAbnormalClose
  \/ SuccessfulOpen

SpecBackoff == InitBackoff /\ [][NextBackoff]_vars

\* --------------------------------- the account service and its pulse observers
\* onWebSocketMessage(callback), with a closure that is not registered.
OnWebSocketMessage(o) ==
  /\ service = "account"
  /\ \A i \in DOMAIN messageCallbacks : messageCallbacks[i] # o
  /\ \A x \in Observers : x < o => \E i \in DOMAIN messageCallbacks : messageCallbacks[i] = x
  /\ messageCallbacks' = Append(messageCallbacks, o)
  /\ pulsed' = NoPulse
  /\ inbound' = "none"
  /\ notified' = {}
  /\ UNCHANGED << service, accountVars, pc, req, awaiting, torn, unsubCalls, directCalls, failures,
                  faultBudget, callBudget, exhausted, pongOverdue, closeCause, socketVars, viewVars, delay >>

\* The function onWebSocketMessage returned for closure o is called.
MessageUnsubscribe(o) ==
  /\ service = "account"
  /\ \E i \in DOMAIN messageCallbacks : messageCallbacks[i] = o
  /\ messageCallbacks' = SelectSeq(messageCallbacks, LAMBDA cb : cb # o)
  /\ pulsed' = NoPulse
  /\ inbound' = "none"
  /\ notified' = {}
  /\ UNCHANGED << service, accountVars, pc, req, awaiting, torn, unsubCalls, directCalls, failures,
                  faultBudget, callBudget, exhausted, pongOverdue, closeCause, socketVars, viewVars, delay >>

InitPulse ==
  /\ service = "account"
  /\ faultBudget = MaxFailures
  /\ callBudget = 0
  /\ listenerBudget = MaxListeners
  /\ InitState

NextPulse ==
  \/ \E o \in Observers : OnWebSocketMessage(o)
  \/ \E o \in Observers : MessageUnsubscribe(o)
  \/ \E s \in Sockets : OnOpen(s)
  \/ \E s \in Sockets : OnClose(s)
  \/ ReconnectTimerFires
  \/ \E c \in Consumers, r \in Requests : SubscribeToChannel(c, r)
  \/ \E c \in Consumers, r \in Requests : SubscribeToUserState(c, r)
  \/ \E c \in Consumers, gotData \in BOOLEAN : FetchReturns(c, gotData)
  \/ \E c \in Consumers : Cleanup(c)
  \/ \E s \in Sockets, m \in InboundFrames : OnMessage(s, m)
  \/ \E s \in Sockets, data \in PongFrames : OnPong(s, data)
  \/ \E s \in Sockets, data \in TextFrames : OnText(s, data)

SpecPulse == InitPulse /\ [][NextPulse]_vars

\* ------------------------------------ the socket service and its listeners
InitListeners ==
  /\ service = "socket"
  /\ faultBudget = MaxFailures
  /\ callBudget = 0
  /\ listenerBudget = MaxCallbacks
  /\ InitState

\* A push of prices, and a frame that is none (it takes the fallback return).
PriceFrames == { AllMidsFrame(m) : m \in Mids } \cup {AckFrame}

NextListeners ==
  \/ \E e \in Events : Subscribe(e)
  \/ \E e \in Events : Unsubscribe(e)
  \/ \E e \in Events : UnsubscribeTwice(e)
  \/ SubscriberMutates
  \/ \E s \in Sockets : SocketOpens(s)
  \/ \E s \in Sockets : SocketCloses(s)
  \/ ReconnectTimeoutFires
  \/ \E s \in Sockets, data \in PriceFrames : SocketMessage(s, data)

SpecListeners == InitListeners /\ [][NextListeners]_vars

\* ------------------------------------------------------- the account view
\* JavaScript truthiness of an optional string, and a || b on such strings.
Truthy(v) == v \notin {Absent, ""}
Or(a, b) == IF Truthy(a) THEN a ELSE b

\* JSON.stringify of a position list (undefined for undefined).
RECURSIVE StringifyPositions(_)
StringifyPositions(ps) ==
  IF ps = <<>> THEN <<>>
  ELSE LET one == JsonStringify(<< <<"coin", <<Head(ps).coin>> >>, <<"szi", <<Head(ps).szi>> >> >>)
       IN IF Tail(ps) = <<>> THEN one ELSE one \o <<",">> \o StringifyPositions(Tail(ps))

StringifyList(st) ==
  IF st.defined THEN <<"[">> \o StringifyPositions(st.assetPositions) \o <<"]">> ELSE <<Absent>>

\* st?.crossMarginSummary?.accountValue, st?.crossMarginSummary?.leverage, st?.withdrawable
AccountValue(st) == IF st.crossMarginSummary = None THEN Absent ELSE st.crossMarginSummary[1].accountValue
Leverage(st) == IF st.crossMarginSummary = None THEN Absent ELSE st.crossMarginSummary[1].leverage
Withdrawable(st) == st.withdrawable

\* The updater without its empty-update test.
NeverEmptyUpdate(new, prev) == FALSE

\* The updater's first test without its look at the positions held.
EmptyUpdateOfAnything(new, prev) == Len(new.assetPositions) = 0 /\ ~prev.defined

\* The updater's first test: the update has no positions and the state has some.
EmptyUpdate(new, prev) ==
  Len(new.assetPositions) = 0 /\ prev.defined /\ Len(prev.assetPositions) > 0

\* The position comparison taken to differ for every update.
PositionsAlwaysChanged(new, prev) == TRUE

positionsChanged(new, prev) == StringifyList(new) # StringifyList(prev)

\* The aggregate comparison taken to agree for every update.
ValuesNeverChanged(new, prev) == FALSE

valuesChanged(new, prev) ==
  \/ AccountValue(new) # AccountValue(prev)
  \/ Withdrawable(new) # Withdrawable(prev)
  \/ Leverage(new) # Leverage(prev)

\* The function MainView passes to setAccountState: the next state, and which
\* object it is (the previous one, the incoming one, or a fresh copy).
Updater(new, prev) ==
  IF EmptyUpdate(new, prev)
  THEN [state |-> [new EXCEPT !.assetPositions = prev.assetPositions], object |-> "copy"]
  ELSE IF positionsChanged(new, prev) \/ valuesChanged(new, prev)
       THEN [state |-> new, object |-> "incoming"]
       ELSE [state |-> prev, object |-> "prev"]

\* The AccountState processWsClearinghouseData hands to onUpdate.
processWsClearinghouseData(processedData) ==
  AccountState(IF processedData.assetPositions = None THEN <<>> ELSE processedData.assetPositions[1],
               IF processedData.crossMarginSummary = None THEN Some(MarginSummary("0", "0"))
               ELSE processedData.crossMarginSummary,
               processedData.withdrawable,
               Absent)

\* MainView renders AccountSummary.
Mounted(st, loading) == st.defined /\ loading = FALSE

\* The effect without the fallback to the displayed value.
MarginWithoutFallback(st, current) == Or(st.crossMaintenanceMarginUsed, "0")

\* The value AccountSummary's effect passes to setMaintenanceMargin.
NewMaintenanceMargin(st, current) == Or(st.crossMaintenanceMarginUsed, Or(current, "0"))

\* The callback MainView gives subscribeToUserState, with the render that
\* follows: AccountSummary's effect runs when it mounts and when its
\* accountState prop is another object.
OnUpdate(newAccountState) ==
  LET r == Updater(newAccountState, accountState)
      wasMounted == Mounted(accountState, isLoading)
      current == IF wasMounted THEN maintenanceMargin ELSE "0"
      seen == IF wasMounted THEN knownMargin ELSE Absent
      runs == ~wasMounted \/ r.object # "prev"
  IN /\ isLoading' = FALSE
     /\ accountState' = r.state
     /\ incoming' = newAccountState
     /\ previous' = accountState
     /\ returned' = r.object
     /\ maintenanceMargin' = IF runs THEN NewMaintenanceMargin(r.state, current) ELSE current
     /\ knownMargin' = IF runs /\ r.state.crossMaintenanceMarginUsed # Absent
                       THEN r.state.crossMaintenanceMarginUsed ELSE seen

ViewFrame == UNCHANGED << inbound, messageCallbacks, pulsed, delay, service, accountVars, consumerVars, directCalls, failures, faultBudget, callBudget,
                          exhausted, pongOverdue, closeCause, socketVars >>

\* useWallet() yields another account: the effect's cleanup ends the running
\* subscription, and for a wallet the effect starts the next one.
AccountChanges(a) ==
  /\ service = "view"
  /\ a # account
  /\ account' = a
  /\ incoming' = NoState
  /\ previous' = NoState
  /\ returned' = "none"
  /\ IF a = NoAccount
     THEN /\ subscription' = "none"
          /\ UNCHANGED << accountState, isLoading, maintenanceMargin, knownMargin >>
     ELSE /\ subscription' = "fetching"
          /\ isLoading' = TRUE
          /\ maintenanceMargin' = "0"
          /\ knownMargin' = Absent
          /\ UNCHANGED accountState
  /\ ViewFrame

\* fetchClearinghouseState resolves and subscribeToUserState passes the
\* baseline to onUpdate.
BaselineArrives(initialData) ==
  /\ service = "view"
  /\ subscription = "fetching"
  /\ OnUpdate(initialData)
  /\ subscription' = "live"
  /\ UNCHANGED account
  /\ ViewFrame

\* fetchClearinghouseState rejects: logged, and the subscription goes on.
BaselineFails ==
  /\ service = "view"
  /\ subscription = "fetching"
  /\ subscription' = "live"
  /\ incoming' = NoState
  /\ previous' = NoState
  /\ returned' = "none"
  /\ UNCHANGED << account, accountState, isLoading, maintenanceMargin, knownMargin >>
  /\ ViewFrame

\* processUserData on a webData2 payload that passes asWsWebdata2: the
\* clearinghouse fields nested under clearinghouseState, or at the top level.
PushArrives(data, nested) ==
  /\ service = "view"
  /\ subscription = "live"
  /\ IF nested \/ data.crossMarginSummary # None \/ data.assetPositions # None
               \/ Truthy(data.withdrawable)
     THEN OnUpdate(processWsClearinghouseData(data))
     ELSE /\ incoming' = NoState
          /\ previous' = NoState
          /\ returned' = "none"
          /\ UNCHANGED << accountState, isLoading, maintenanceMargin, knownMargin >>
  /\ UNCHANGED << account, subscription >>
  /\ ViewFrame

InitView ==
  /\ service = "view"
  /\ faultBudget = 0
  /\ callBudget = 0
  /\ listenerBudget = MaxListeners
  /\ InitState

NextView ==
  \/ \E a \in Wallets \cup {NoAccount} : AccountChanges(a)
  \/ \E initialData \in Baselines(account) : BaselineArrives(initialData)
  \/ BaselineFails
  \/ \E data \in WsClearinghouseStates(account), nested \in BOOLEAN : PushArrives(data, nested)

SpecView == InitView /\ [][NextView]_vars

\* ------------------------------------------------------------------ claims
\* Consumer c holds a subscription it has not given up.
Active(c) == pc[c] = "subscribed" /\ unsubCalls[c] = 0

\* The callbacks the registry holds.
Registered == { websocketSubscriptions[k] : k \in DOMAIN websocketSubscriptions }

\* C1 (reconnect replay): behaviours with a dropped connection and no call of
\* closeWebSocketConnection; whenever the module's socket is open, every entry
\* of the registry has had its subscribe frame (same type, same parameters)
\* sent on that socket - so after a reconnect each entry was replayed.
C1_ReplayOnReconnect ==
  (failures > 0 /\ directCalls = 0 /\ websocket # NoSocket /\ readyState[websocket] = "OPEN")
    => \A k \in DOMAIN websocketSubscriptions :
         Count(sent[websocket], SubscribeFrame(req[websocketSubscriptions[k]])) >= 1

\* C2 (intentional disconnect): while the network has caused no fault, a
\* closing socket that still has its handlers was closed by
\* closeWebSocketConnection; handling its close event schedules no reconnect
\* and leaves no ping or health-check timer, and the status stays disconnected.
C2_DisconnectSchedulesNothing ==
  [][\A s \in Sockets :
       (failures = 0 /\ readyState[s] = "CLOSING" /\ HandleClose(s))
         => (~reconnectTimer' /\ ~pingInterval' /\ ~connectionHealthCheckInterval'
             /\ websocketStatus' = "disconnected")]_vars

\* C3 (fan-out): a data frame is delivered to every consumer that holds a
\* subscription for it, whoever else subscribed to or unsubscribed from the
\* same key.
C3_FanOut ==
  [][\A s \in Sockets, m \in DataFrames :
       OnMessage(s, m)
         => \A c \in Consumers :
              (Active(c) /\ SubscribeFrame(req[c]) = Feeds(m)) => c \in notified']_vars

\* C4 (idempotent unsubscribe): a second call of a returned unsubscribe
\* function writes nothing to the wire and leaves the registry as it was.
C4_UnsubscribeTwice ==
  [][\A c \in Consumers :
       UnsubscribeAgain(c)
         => (sent' = sent /\ websocketSubscriptions' = websocketSubscriptions)]_vars

\* C5 (key canonicalization): on one connection no subscribe frame is written
\* twice, however many subscribe calls were made for its key, and the
\* consumers of one wire subscription share one registry key.
C5_OneSubscribeFramePerKey ==
  /\ \A s \in Sockets : \A f \in DOMAIN sent[s] : f.method = "subscribe" => sent[s][f] <= 1
  /\ \A c, d \in Consumers :
       (pc[c] = "subscribed" /\ pc[d] = "subscribed" /\ SubscribeFrame(req[c]) = SubscribeFrame(req[d]))
         => KeyOf(req[c]) = KeyOf(req[d])

\* C6 (concurrent subscribe): with no fault of the network and no call of
\* closeWebSocketConnection, a subscribe call that awaits the connection is
\* never left with a promise that cannot settle.
C6_AwaitCanSettle ==
  (failures = 0 /\ directCalls = 0)
    => \A c \in Consumers : ~(pc[c] = "connect" /\ awaiting[c] = NoSocket)

\* C7 (dangling-callback guard): a consumer of subscribeToUserState torn down
\* before the call returned (so its cleanup had no unsubscribe function to
\* call) is not called back and has no entry in the registry.
C7_NoLateResult ==
  \A c \in Consumers :
    (req[c].kind = "user" /\ torn[c] /\ unsubCalls[c] = 0)
      => (c \notin notified /\ c \notin Registered)

\* C8 (reconnect ceiling): in both services, a close handled with the attempt
\* counter at the ceiling schedules no reconnect timer, and the connection
\* attempts made by reconnect timers since the last handled open never exceed
\* the ceiling.
C8_ReconnectCeiling ==
  /\ [](timerAttempts <= MAX_RECONNECT_ATTEMPTS)
  /\ [][\A s \in Sockets :
          /\ (reconnectAttempts = MAX_RECONNECT_ATTEMPTS /\ HandleClose(s))
               => (reconnectTimer' = reconnectTimer /\ strayReconnectTimers' = strayReconnectTimers)
          /\ (reconnectAttempts = MAX_RECONNECT_ATTEMPTS /\ SocketCloses(s))
               => ~reconnectTimeout']_vars

\* C9 (exhausted reconnection is surfaced): in both services, an unexpected
\* close handled with the attempt counter at the ceiling leaves the status
\* 'error'.
C9_ExhaustedIsError ==
  [][\A s \in Sockets :
       /\ (reconnectAttempts = MAX_RECONNECT_ATTEMPTS /\ readyState[s] # "CLOSING" /\ HandleClose(s))
            => websocketStatus' = "error"
       /\ (reconnectAttempts = MAX_RECONNECT_ATTEMPTS /\ readyState[s] # "CLOSING"
             /\ hasActiveListeners(This) /\ SocketCloses(s))
            => connectionStatus' = "error"]_vars

\* Every handled open event leaves the attempt counter 0 and the status
\* 'connected'.
OpenResets ==
  \A s \in Sockets :
    /\ OnOpen(s) => (reconnectAttempts' = 0 /\ websocketStatus' = "connected")
    /\ SocketOpens(s) => (reconnectAttempts' = 0 /\ connectionStatus' = "connected")

Live(rs, s) == rs[s] \in {"OPEN", "CONNECTING"}

\* C11 (connect is idempotent): a call of initializeWebSocket made while the
\* module's socket is open or connecting creates no socket, closes none, keeps
\* the timers and leaves the status alone.
C11_ConnectIdempotent ==
  [][(CallInitializeWebSocket /\ websocket # NoSocket /\ Live(readyState, websocket))
       => /\ websocket' = websocket
          /\ readyState' = readyState
          /\ handlers' = handlers
          /\ pingInterval' = pingInterval
          /\ connectionHealthCheckInterval' = connectionHealthCheckInterval
          /\ websocketStatus' = websocketStatus]_vars

\* C12 (single physical connection): at most one socket is open or connecting
\* with its handlers attached.
C12_SingleConnection ==
  Cardinality({ s \in Sockets : handlers[s] /\ Live(readyState, s) }) <= 1

\* C13 (lazy connect on subscribe): a listener added to the socket service
\* while no socket is open or connecting and no reconnect is pending leaves a
\* connection attempt started.
C13_LazyConnect ==
  [][\A e \in Events :
       (Subscribe(e) /\ ~reconnectTimeout /\ (ws = NoSocket \/ ~Live(readyState, ws)))
         => (ws' # NoSocket /\ readyState'[ws'] = "CONNECTING")]_vars

\* C14 (half-open detection): while the module's socket is open and the last
\* recognised pong is more than the window old, a health check is running and
\* its tick closes the socket; when that close is handled, a reconnect is
\* scheduled if the attempt count is below the ceiling and none beyond it.
C14_HalfOpenDetection ==
  /\ []((websocket # NoSocket /\ readyState[websocket] = "OPEN" /\ pongOverdue)
          => ENABLED HealthCheckTick)
  /\ [][HealthCheckTick => readyState'[websocket] = "CLOSING"]_vars
  /\ [][\A s \in Sockets :
          (HandleClose(s) /\ closeCause[s] = "noPong")
            => IF reconnectAttempts < MAX_RECONNECT_ATTEMPTS
               THEN reconnectTimer' /\ reconnectAttempts' = reconnectAttempts + 1
               ELSE /\ reconnectAttempts' = reconnectAttempts
                    /\ reconnectTimer' = reconnectTimer
                    /\ strayReconnectTimers' = strayReconnectTimers]_vars

\* A socket closed by the health check has had its close handled and a
\* reconnect timer is pending.
C14_Witness ==
  /\ service = "account"
  /\ directCalls = 0 /\ failures = 1
  /\ pongOverdue /\ websocket = NoSocket /\ reconnectTimer /\ reconnectAttempts > 0
  /\ \A s \in Sockets : closeCause[s] = "none" /\ readyState[s] = "NONE"

\* The step emitted event e on the socket service's emitter.
Emitted(e) == \E i \in DOMAIN emitted : emitted[i].event = e

\* C15 (pong form tolerance): each encoding of a pong - the bare text, the
\* channel form and the type form - handled by either service's message
\* handler leaves the liveness timer reset: the account service's last pong is
\* not overdue, the socket service's lastPongTime is the receipt time and
\* PONG_RECEIVED was emitted.
C15_PongTolerance ==
  [][\A s \in Sockets, data \in PongFrames :
       /\ OnPong(s, data) => ~pongOverdue'
       /\ SocketMessage(s, data) => (lastPongTime' = "receipt" /\ Emitted("PONG_RECEIVED")')]_vars

\* C16 (pong frames are not routed): handling a pong, in any encoding, calls
\* no account-state callback and emits no PRICES_UPDATED, whatever the cache.
C16_PongNotRouted ==
  [][\A s \in Sockets, data \in PongFrames :
       /\ OnPong(s, data) => notified' = {}
       /\ SocketMessage(s, data) => ~Emitted("PRICES_UPDATED")']_vars

\* C17 (connect timeout): when the timeout of a connection attempt fires and
\* the attempt's socket is still connecting, the status becomes 'error' and
\* that socket is closed; when the close of a socket closed for the timeout is
\* handled, a reconnect is scheduled if the attempt count is below the ceiling
\* and none beyond it.
C17_ConnectTimeout ==
  /\ [][\A s \in Sockets :
          (ConnectionTimeout(s) /\ handlers[s] /\ readyState[s] = "CONNECTING")
            => (websocketStatus' = "error" /\ readyState'[s] = "CLOSING")]_vars
  /\ [][\A s \in Sockets :
          (HandleClose(s) /\ closeCause[s] = "timeout")
            => IF reconnectAttempts < MAX_RECONNECT_ATTEMPTS
               THEN reconnectTimer' /\ reconnectAttempts' = reconnectAttempts + 1
               ELSE /\ reconnectAttempts' = reconnectAttempts
                    /\ reconnectTimer' = reconnectTimer
                    /\ strayReconnectTimers' = strayReconnectTimers]_vars

\* C18 (transport errors never reach callers): no promise returned by
\* subscribeToChannel or subscribeToUserState is ever rejected.
C18_NoRejection == \A c \in Consumers : pc[c] # "rejected"

\* C19 (REST baseline failure is surfaced): when the baseline fetch of a
\* subscribeToUserState call fails, the step that handles the failure rejects
\* the call's promise or hands its caller a value through onUpdate.
C19_BaselineFailureSurfaced ==
  [][\A c \in Consumers :
       FetchReturns(c, FALSE) => (pc'[c] = "rejected" \/ c \in notified')]_vars

\* The statuses the step emitted to the status listeners, in order.
IsStatusEvent(e) == e.event = "CONNECTION_STATUS_CHANGED"
StatusesEmitted ==
  LET events == SelectSeq(emitted, IsStatusEvent)
  IN [i \in DOMAIN events |-> events[i].payload]

\* What the callback registered by the step was called with: it is on the
\* emitter from the first statement of subscribeToConnectionStatus, so it
\* hears what the call emits, and then it is called directly.
Received == StatusesEmitted \o direct

\* C20 (status observers): registering a status observer calls it exactly
\* once, with the current status; and every change of the status is emitted to
\* the registered observers, the last emission carrying the new status.
C20_StatusObservers ==
  /\ [][Subscribe("CONNECTION_STATUS_CHANGED") => Received' = << connectionStatus' >>]_vars
  /\ [][(service = "socket" /\ connectionStatus' # connectionStatus)
          => (StatusesEmitted' # <<>>
              /\ StatusesEmitted'[Len(StatusesEmitted')] = connectionStatus')]_vars


\* The step ran the updater (onUpdate was called with a state).
Updated == returned # "none"

\* The aggregates the updater compares agree between two states.
SameAggregates(x, y) ==
  /\ AccountValue(x) = AccountValue(y)
  /\ Withdrawable(x) = Withdrawable(y)
  /\ Leverage(x) = Leverage(y)

\* C21 (no-op stability): when the updater is given a previous state S and an
\* update whose position list, account value, withdrawable and leverage all
\* equal those of S, it returns the object S itself.
C21_NoOpStability ==
  (Updated /\ previous.defined /\ incoming.assetPositions = previous.assetPositions
     /\ SameAggregates(incoming, previous))
    => returned = "prev" /\ accountState = previous

\* A push repeated the held state, position included, and the held object was kept.
C21_Witness ==
  /\ returned = "prev" /\ previous.defined /\ Len(previous.assetPositions) > 0
  /\ incoming.assetPositions = previous.assetPositions /\ SameAggregates(incoming, previous)

\* C22 (empty-position preservation): when the previous state has a position
\* and the update's position list is empty, the next state has the previous
\* position list and the update's account value, withdrawable and leverage.
C22_EmptyPositionPreservation ==
  (Updated /\ previous.defined /\ Len(previous.assetPositions) > 0 /\ incoming.assetPositions = <<>>)
    => /\ accountState.assetPositions = previous.assetPositions
       /\ SameAggregates(accountState, incoming)

\* An update without positions and with another withdrawable met a state with a position.
C22_Witness ==
  /\ Updated /\ previous.defined /\ Len(previous.assetPositions) > 0 /\ incoming.assetPositions = <<>>
  /\ Withdrawable(incoming) # Withdrawable(previous)
  /\ Withdrawable(accountState) = Withdrawable(incoming)

\* C23 as stated: whenever the update has a position or aggregates that differ
\* from the previous state, the next state is a new object whose positions and
\* aggregates are those of the update.
C23_AsStated ==
  (Updated /\ (incoming.assetPositions # <<>> \/ ~SameAggregates(incoming, previous)))
    => /\ returned # "prev"
       /\ accountState.assetPositions = incoming.assetPositions
       /\ SameAggregates(accountState, incoming)

\* C23 (changed update replaces state): when the update differs from the
\* previous state in its position list or in an aggregate, and it is not an
\* empty list meeting a state with positions, the next state is the incoming
\* object itself.
C23_ChangedUpdateReplaces ==
  (/\ Updated
   /\ ~(incoming.assetPositions = <<>> /\ previous.defined /\ Len(previous.assetPositions) > 0)
   /\ \/ ~previous.defined
      \/ incoming.assetPositions # previous.assetPositions
      \/ ~SameAggregates(incoming, previous))
    => returned = "incoming" /\ accountState = incoming

\* A baseline without positions was followed by a push with the ETH position
\* and the same aggregates, and the push became the state.
C23_Witness ==
  /\ returned = "incoming" /\ previous.defined /\ previous.assetPositions = <<>>
  /\ incoming.assetPositions = << Position("ETH", "2") >>
  /\ SameAggregates(incoming, previous) /\ accountState = incoming

\* C24 (maintenance-margin fallback): while AccountSummary is mounted, the
\* maintenance margin it displays is the most recent non-absent
\* crossMaintenanceMarginUsed among the states it was given, and '0' only if
\* none of them had one.
C24_MaintenanceMarginFallback ==
  Mounted(accountState, isLoading)
    => maintenanceMargin = (IF knownMargin # Absent THEN knownMargin ELSE "0")

\* A state without crossMaintenanceMarginUsed followed one that had it, and
\* the earlier value is still displayed.
C24_Witness ==
  /\ Mounted(accountState, isLoading) /\ returned = "incoming"
  /\ previous.crossMaintenanceMarginUsed \in Margins
  /\ accountState.crossMaintenanceMarginUsed = Absent
  /\ maintenanceMargin = previous.crossMaintenanceMarginUsed

\* C25 (absent aggregates are not defaulted): when a push that omits
\* crossMarginSummary or withdrawable meets a held state, the state held
\* afterwards has the held value of the omitted field.
C25_AbsentAggregatesKept ==
  [][\A data \in WsClearinghouseStates(account), nested \in BOOLEAN :
       (PushArrives(data, nested) /\ accountState.defined)
         => /\ data.crossMarginSummary = None
                 => accountState'.crossMarginSummary = accountState.crossMarginSummary
            /\ data.withdrawable = Absent
                 => accountState'.withdrawable = accountState.withdrawable]_vars

\* C26 (fresh state per subscription): the state held after the baseline of a
\* subscription arrived is that baseline, and after any update for the
\* connected wallet the held positions are positions of that wallet.
C26_FreshStatePerSubscription ==
  /\ [][\A initialData \in Baselines(account) :
          BaselineArrives(initialData) => accountState' = initialData]_vars
  /\ []((Updated /\ account \in Wallets) => accountState.assetPositions \in Portfolio(account))

\* The callbacks registered for user u: those of the consumers that asked for
\* u's account state.
CallbacksFor(u) == { c \in Consumers : req[c].kind = "user" /\ ToLowerCase(req[c].address) = u }

\* C27 (routing isolation): a webData2 frame carrying user U reaches the
\* callback registered under the webData2 key of U and no callback of another
\* user or another channel; a frame whose key is not in the registry reaches
\* no callback and leaves registry, status and timers as they were.
C27_RoutingIsolation ==
  [][\A s \in Sockets, m \in InboundFrames :
       (OnMessage(s, m) /\ m.channel = "webData2")
         => /\ notified' \subseteq CallbacksFor(m.user)
            /\ (WebData2Key(m.user) \in DOMAIN websocketSubscriptions /\ m.data = ValidPayload)
                 => notified' = { websocketSubscriptions[WebData2Key(m.user)] }
            /\ WebData2Key(m.user) \notin DOMAIN websocketSubscriptions
                 => /\ notified' = {}
                    /\ UNCHANGED << websocketSubscriptions, websocketStatus, reconnectTimer,
                                    pingInterval, connectionHealthCheckInterval,
                                    reconnectAttempts >>]_vars

\* A frame for a user nobody asked about was handled while a callback for
\* another user was registered, and no callback ran.
C27_Witness ==
  /\ inbound = "stray" /\ notified = {}
  /\ \E c \in Consumers : /\ pc[c] = "subscribed" /\ req[c].kind = "user"
                          /\ KeyOf(req[c]) \in DOMAIN websocketSubscriptions

\* C28 (acknowledgments are informational): handling a subscriptionResponse
\* frame calls no account-state callback and emits no price update, and
\* leaves the registry, the listeners and the price cache as they were.
C28_AckInformational ==
  [][\A s \in Sockets :
       /\ OnText(s, AckText) => notified' = {} /\ UNCHANGED websocketSubscriptions
       /\ SocketMessage(s, AckFrame)
            => /\ \A i \in DOMAIN emitted' : emitted'[i].event # "PRICES_UPDATED"
               /\ UNCHANGED << cachedMidPrices, prices, listenerCounts >>]_vars

\* A frame that does not decode: no JSON, or no channel.
UndecodableTexts == {GarbageText, NoChannelText}

\* What handling a frame leaves alone when the frame is dropped.
Untouched ==
  UNCHANGED << websocketStatus, websocketSubscriptions, reconnectTimer, pingInterval,
               connectionHealthCheckInterval, reconnectAttempts, handlers, readyState, sent >>

C30_WholesaleReplacement ==
  [][\A s \in Sockets, m \in Mids \cup {<<>>} :
       SocketMessage(s, AllMidsFrame(m)) => cachedMidPrices' = m /\ prices' = m]_vars

\* C31 (price cache isolation): no map handed to a subscriber is the object
\* the service or the cache keeps, so that what getPrices() and
\* getCachedMidPrices() return is never a map a subscriber wrote to.
C31_PriceCacheIsolation ==
  handed = "none" /\ prices # Scribbled /\ cachedMidPrices # Scribbled

\* C34 (listener-driven connection lifetime): whatever subscribe calls and
\* calls of returned unsubscribe functions were made, the same function more
\* than once included, listenerCounts[event] is the number of callbacks still
\* registered for the event, and the service gives up its socket only when
\* no callback remains.
C34_ListenerDrivenLifetime ==
  /\ [](\A e \in Events : listenerCounts[e] = listeners[e])
  /\ [][(ws # NoSocket /\ ws' = NoSocket) => \A e \in Events : listeners'[e] = 0]_vars

\* C35 (stale close events are harmless in the socket service): the close
\* event of a socket the service has replaced does not touch the current
\* connection: whenever the current socket is open (its open handler has
\* run), connectionStatus is 'connected', the ping interval is active and
\* reconnectAttempts is 0.
C35_StaleCloseHarmless ==
  (service = "socket" /\ ws # NoSocket /\ readyState[ws] = "OPEN")
    => connectionStatus = "connected" /\ pingInterval /\ reconnectAttempts = 0

\* C36 (timeout ownership): the connection-timeout timer of the call that
\* created socket s acts on s only: when it fires, no other socket is closed,
\* and the status becomes 'error' only if s is the module's socket.
C36_TimeoutOwnership ==
  [][\A s \in Sockets :
       ConnectionTimeout(s)
         => /\ \A x \in Sockets \ {s} : readyState'[x] = readyState[x]
            /\ websocketStatus' # websocketStatus => websocket = s]_vars

\* C37 (bounded reconnect state in the account service): reconnectAttempts
\* stays within 0..MAX_RECONNECT_ATTEMPTS, at most one reconnect timer is
\* pending, at most one ping interval and one health-check interval run, and
\* once a close event has been handled none of the intervals runs.
C37_BoundedReconnectState ==
  /\ [](/\ reconnectAttempts \in 0..MAX_RECONNECT_ATTEMPTS
        /\ strayReconnectTimers = 0
        /\ strayIntervals = 0)
  /\ [][\A s \in Sockets :
         OnClose(s) => /\ ~pingInterval' /\ ~connectionHealthCheckInterval'
                       /\ strayIntervals' = 0]_vars

\* C38 (positions are sticky): once the state MainView holds has a
\* non-empty position list, every later state of the same subscription has
\* one too: an update with an empty list never empties it.
C38_PositionsSticky ==
  [][(account' = account /\ accountState.defined /\ Len(accountState.assetPositions) > 0)
       => Len(accountState'.assetPositions) > 0]_vars

\* A push with an empty position list has met a state with positions on a
\* live subscription, and the positions are still there.
C38_Witness ==
  /\ subscription = "live" /\ returned = "copy"
  /\ previous.defined /\ Len(previous.assetPositions) > 0
  /\ incoming.defined /\ Len(incoming.assetPositions) = 0
  /\ Len(accountState.assetPositions) > 0

\* The consumers whose subscribe call was for key k, and key k with nobody
\* asking: an unsubscribe function for k has run, and no subscribe call for k
\* is in progress or has completed since.
Askers(k) == { c \in Consumers : req[c] # NoRequest /\ KeyOf(req[c]) = k }
Unsubscribed(k) ==
  /\ \E c \in Askers(k) : unsubCalls[c] > 0
  /\ \/ k \notin DOMAIN websocketSubscriptions
     \/ \A c \in Askers(k) : pc[c] = "subscribed" => unsubCalls[c] > 0
  /\ \A c \in Askers(k) : pc[c] \notin {"fetch", "connect"}
NewCall(k) ==
  \E c \in Consumers : pc[c] = "idle" /\ req'[c] # NoRequest /\ KeyOf(req'[c]) = k

\* C39 (unsubscribed keys stay silent): once the unsubscribe function for a
\* key has run, with the socket open or not, no step sends a subscribe frame
\* for the key on any connection and none calls a callback given for it,
\* unless the step is a new subscribe call for the key.
C39_UnsubscribedKeysSilent ==
  [][\A r \in Requests :
       (Unsubscribed(KeyOf(r)) /\ ~NewCall(KeyOf(r)))
         => /\ \A s \in Sockets : Count(sent'[s], SubscribeFrame(r)) <= Count(sent[s], SubscribeFrame(r))
            /\ notified' \cap Askers(KeyOf(r)) = {}]_vars

\* The unsubscribe function of a key has run, nobody asks for the key, and a
\* connection opened since carries no subscribe frame for it.
C39_Witness ==
  \E c \in Consumers :
    /\ unsubCalls[c] > 0 /\ Unsubscribed(KeyOf(req[c]))
    /\ websocket # NoSocket /\ readyState[websocket] = "OPEN"
    /\ Count(sent[websocket], PingFrame) > 0
    /\ Count(sent[websocket], SubscribeFrame(req[c])) = 0
    /\ Count(sent[websocket], UnsubscribeFrame(req[c])) = 0

\* The closures registered as pulse observers.
PulseObservers == { messageCallbacks[i] : i \in DOMAIN messageCallbacks }

\* C32 (message pulse): every frame the message handler is given - pong,
\* acknowledgment, data, malformed - calls each registered pulse observer
\* exactly once, whether or not a data callback is called, and calls no
\* closure whose unsubscribe function has run.
C32_MessagePulse ==
  [][\A s \in Sockets :
       (\/ \E m \in InboundFrames : OnMessage(s, m)
        \/ \E data \in PongFrames : OnPong(s, data)
        \/ \E data \in TextFrames : OnText(s, data))
         => \A o \in Observers : pulsed'[o] = IF o \in PulseObservers THEN 1 ELSE 0]_vars

\* A malformed frame was handled with the second closure registered and the
\* first one unsubscribed: the second was called once, the first not, and
\* no data callback ran.
C32_Witness ==
  /\ inbound = "malformed" /\ notified = {}
  /\ messageCallbacks = << 2 >>
  /\ pulsed[2] = 1 /\ pulsed[1] = 0

\* C33 (backoff growth): on successive abnormal closes with no successful
\* open in between, the delay a close computes is at least the delay the
\* close before it computed, up to the cap (exponent 5 in the account
\* service, whatever the jitter; factor 2 in the socket service).
C33_BackoffGrowth ==
  [][(reconnectAttempts >= 1 /\ reconnectAttempts' = reconnectAttempts + 1
        /\ (service = "account" => reconnectAttempts' <= 6))
       => delay' >= delay]_vars

\* The account service computed the delay of the sixth attempt in a row with
\* no jitter; the socket service reached its longest delay.
C33_Witness ==
  \/ service = "account" /\ reconnectAttempts = 6 /\ delay = RECONNECT_DELAY_MS * 243
  \/ service = "socket" /\ reconnectAttempts = 6 /\ delay = 2 * RECONNECT_INTERVAL * Scale

====
